---- MODULE Spec2Model ----
(***************************************************************************)
(* request-nest: the request-ingest pipeline, the two stores (bins and     *)
(* events) and the read-side query service, as a state machine.            *)
(*                                                                         *)
(* Every request runs in a slot (one asyncio task per request).  The       *)
(* steps of a request that touch the database (SELECT, INSERT/flush,       *)
(* COMMIT) are separate actions, so requests interleave at exactly the     *)
(* await points of the code; everything a handler does between two         *)
(* database statements is local and is part of the neighbouring action.    *)
(***************************************************************************)
EXTENDS Integers, Sequences, FiniteSets, TLC

(***************************************************************************)
(* Bounds of the model.                                                    *)
(***************************************************************************)
\* settings.max_body_size of the modelled deployment (a configuration value)
max_body_size == 4
\* rows the general specification lets each table grow to
MaxBins == 2
MaxEvents == 2
\* clock ticks that may pass while requests are in flight
MaxTicks == 1
\* rows the bulk-listing specification lets the events table grow to,
\* counted above MAX_LIMIT
BulkExtra == 2

(***************************************************************************)
(* Program constants.                                                      *)
(***************************************************************************)
MAX_LIMIT == 100
DEFAULT_LIMIT == 50

Min(a, b) == IF a < b THEN a ELSE b

(***************************************************************************)
(* base64.b64encode / base64.b64decode (standard alphabet, '=' padding).   *)
(* Bytes are integers 0..255; a str is the sequence of its code points, so  *)
(* the alphabet is A-Z, a-z, 0-9, + and / as their ASCII codes.            *)
(***************************************************************************)
B64Alphabet ==
  << 65, 66, 67, 68, 69, 70, 71, 72, 73, 74, 75, 76, 77,
     78, 79, 80, 81, 82, 83, 84, 85, 86, 87, 88, 89, 90,
     97, 98, 99, 100, 101, 102, 103, 104, 105, 106, 107, 108, 109,
     110, 111, 112, 113, 114, 115, 116, 117, 118, 119, 120, 121, 122,
     48, 49, 50, 51, 52, 53, 54, 55, 56, 57, 43, 47 >>

\* the padding character '='
B64Pad == 61

B64Char(n) == B64Alphabet[n + 1]

B64Index(c) == CHOOSE n \in 0..63 : B64Alphabet[n + 1] = c

RECURSIVE B64Encode(_)
B64Encode(bs) ==
  IF Len(bs) = 0 THEN << >>
  ELSE IF Len(bs) = 1 THEN
    << B64Char(bs[1] \div 4), B64Char((bs[1] % 4) * 16), B64Pad, B64Pad >>
  ELSE IF Len(bs) = 2 THEN
    << B64Char(bs[1] \div 4),
       B64Char((bs[1] % 4) * 16 + (bs[2] \div 16)),
       B64Char((bs[2] % 16) * 4), B64Pad >>
  ELSE
    << B64Char(bs[1] \div 4),
       B64Char((bs[1] % 4) * 16 + (bs[2] \div 16)),
       B64Char((bs[2] % 16) * 4 + (bs[3] \div 64)),
       B64Char(bs[3] % 64) >> \o B64Encode(SubSeq(bs, 4, Len(bs)))

RECURSIVE B64Decode(_)
B64Decode(cs) ==
  IF Len(cs) < 4 THEN << >>
  ELSE
    LET s1 == B64Index(cs[1])
        s2 == B64Index(cs[2])
        rest == SubSeq(cs, 5, Len(cs))
    IN IF cs[3] = B64Pad THEN << s1 * 4 + (s2 \div 16) >>
       ELSE LET s3 == B64Index(cs[3])
            IN IF cs[4] = B64Pad THEN
                 << s1 * 4 + (s2 \div 16), (s2 % 16) * 16 + (s3 \div 4) >>
               ELSE
                 << s1 * 4 + (s2 \div 16), (s2 % 16) * 16 + (s3 \div 4),
                    (s3 % 4) * 64 + B64Index(cs[4]) >> \o B64Decode(rest)

(***************************************************************************)
(* bytes.decode("utf-8") in strict mode.  Utf8Valid(bs) is false exactly   *)
(* where Python raises UnicodeDecodeError; Utf8Text(bs) is the decoded     *)
(* str, as its sequence of code points.                                    *)
(***************************************************************************)
IsCont(b) == b >= 128 /\ b <= 191

\* number of bytes the sequence starting with lead byte b1 takes, 0 when b1
\* cannot start a sequence
Utf8SeqLen(b1) ==
  IF b1 <= 127 THEN 1
  ELSE IF b1 >= 194 /\ b1 <= 223 THEN 2
  ELSE IF b1 >= 224 /\ b1 <= 239 THEN 3
  ELSE IF b1 >= 240 /\ b1 <= 244 THEN 4
  ELSE 0

\* the first sequence of bs is well formed: the second byte's range depends
\* on the lead byte (no overlong forms, no surrogates, nothing above U+10FFFF)
Utf8HeadOk(bs) ==
  LET b1 == bs[1]
      n == Utf8SeqLen(b1)
      lo2 == IF b1 = 224 THEN 160 ELSE IF b1 = 240 THEN 144 ELSE 128
      hi2 == IF b1 = 237 THEN 159 ELSE IF b1 = 244 THEN 143 ELSE 191
  IN /\ n > 0
     /\ Len(bs) >= n
     /\ (n >= 2) => (bs[2] >= lo2 /\ bs[2] <= hi2)
     /\ (n >= 3) => IsCont(bs[3])
     /\ (n >= 4) => IsCont(bs[4])

Utf8HeadCodePoint(bs) ==
  LET b1 == bs[1]
      n == Utf8SeqLen(b1)
  IN IF n = 1 THEN b1
     ELSE IF n = 2 THEN (b1 - 192) * 64 + (bs[2] - 128)
     ELSE IF n = 3 THEN (b1 - 224) * 4096 + (bs[2] - 128) * 64 + (bs[3] - 128)
     ELSE (b1 - 240) * 262144 + (bs[2] - 128) * 4096
          + (bs[3] - 128) * 64 + (bs[4] - 128)

RECURSIVE Utf8Valid(_)
Utf8Valid(bs) ==
  IF Len(bs) = 0 THEN TRUE
  ELSE /\ Utf8HeadOk(bs)
       /\ Utf8Valid(SubSeq(bs, Utf8SeqLen(bs[1]) + 1, Len(bs)))

RECURSIVE Utf8Text(_)
Utf8Text(bs) ==
  IF Len(bs) = 0 THEN << >>
  ELSE << Utf8HeadCodePoint(bs) >>
       \o Utf8Text(SubSeq(bs, Utf8SeqLen(bs[1]) + 1, Len(bs)))

(***************************************************************************)
(* Strings of the wire.  A str is the sequence of its code points.         *)
(***************************************************************************)
IsSpace(c) == c \in {32, 9, 10, 13, 11, 12}

IsDigit(c) == c >= 48 /\ c <= 57

RECURSIVE LStrip(_)
LStrip(cs) ==
  IF Len(cs) > 0 /\ IsSpace(cs[1]) THEN LStrip(Tail(cs)) ELSE cs

RECURSIVE RStrip(_)
RStrip(cs) ==
  IF Len(cs) > 0 /\ IsSpace(cs[Len(cs)])
  THEN RStrip(SubSeq(cs, 1, Len(cs) - 1)) ELSE cs

\* str.strip()
Strip(cs) == RStrip(LStrip(cs))

\* str.split(",")[0]: the text before the first comma (code point 44)
RECURSIVE FirstField(_)
FirstField(cs) ==
  IF Len(cs) = 0 \/ cs[1] = 44 THEN << >>
  ELSE << cs[1] >> \o FirstField(Tail(cs))

\* rstrip("/") removing one trailing slash at most
RStripSlash_Once(cs) ==
  IF Len(cs) > 0 /\ cs[Len(cs)] = 47 THEN SubSeq(cs, 1, Len(cs) - 1) ELSE cs

\* str.rstrip("/") (code point 47)
RECURSIVE RStripSlash(_)
RStripSlash(cs) ==
  IF Len(cs) > 0 /\ cs[Len(cs)] = 47
  THEN RStripSlash(SubSeq(cs, 1, Len(cs) - 1)) ELSE cs

\* the digits of an int() literal: digits, single underscores between them
RECURSIVE DigitsOk(_)
DigitsOk(cs) ==
  /\ Len(cs) > 0
  /\ IsDigit(cs[1])
  /\ \/ Len(cs) = 1
     \/ /\ cs[2] = 95
        /\ Len(cs) > 2
        /\ DigitsOk(SubSeq(cs, 3, Len(cs)))
     \/ /\ cs[2] # 95
        /\ DigitsOk(Tail(cs))

RECURSIVE DigitsValue(_, _)
DigitsValue(cs, acc) ==
  IF Len(cs) = 0 THEN acc
  ELSE IF cs[1] = 95 THEN DigitsValue(Tail(cs), acc)
  ELSE DigitsValue(Tail(cs), acc * 10 + (cs[1] - 48))

\* int(text): ok is false where Python raises ValueError
ParseInt(cs) ==
  LET t == Strip(cs)
      signed == Len(t) > 0 /\ t[1] \in {43, 45}
      digits == IF signed THEN Tail(t) ELSE t
  IN IF DigitsOk(digits)
     THEN [ok |-> TRUE,
           val |-> IF signed /\ t[1] = 45 THEN 0 - DigitsValue(digits, 0)
                   ELSE DigitsValue(digits, 0)]
     ELSE [ok |-> FALSE, val |-> 0]

(***************************************************************************)
(* Header and query mappings of the framework (Starlette).                 *)
(***************************************************************************)
\* str.lower() of the header names the model sends
LowerName(n) ==
  CASE n = "Content-Length" -> "content-length"
    [] n = "X-Forwarded-For" -> "x-forwarded-for"
    [] n = "X-Test" -> "x-test"
    [] n = "X-TEST" -> "x-test"
    [] OTHER -> n

\* request.headers.get(name): the first value sent under that name, the
\* comparison being case-insensitive; << >> when the header is absent
HeaderGet(hs, name) ==
  LET idx == {i \in DOMAIN hs : LowerName(hs[i][1]) = name}
  IN IF idx = {} THEN << >>
     ELSE << hs[CHOOSE i \in idx : \A j \in idx : i <= j][2] >>

\* dict(request.headers) keeping the names as they were sent
HeadersDict_AsSent(hs) ==
  [n \in {hs[i][1] : i \in DOMAIN hs} |->
     hs[CHOOSE i \in DOMAIN hs :
          hs[i][1] = n /\ \A j \in DOMAIN hs : hs[j][1] = n => i <= j][2]]

\* dict(request.headers): lower-cased names, the first value of each
HeadersDict(hs) ==
  [n \in {LowerName(hs[i][1]) : i \in DOMAIN hs} |-> HeaderGet(hs, n)[1]]

\* dict(request.query_params): the last value of each key
QueryDict(qs) ==
  [k \in {qs[i][1] : i \in DOMAIN qs} |->
     qs[CHOOSE i \in DOMAIN qs :
          /\ qs[i][1] = k
          /\ \A j \in DOMAIN qs : qs[j][1] = k => j <= i][2]]

\* extract_client_ip: << >> is None
\* extract_client_ip asking the connection first
extract_client_ip_PeerFirst(r) ==
  LET forwarded == HeaderGet(r.headers, "x-forwarded-for")
  IN IF r.client # << >> THEN r.client
     ELSE IF forwarded # << >> /\ forwarded[1] # << >>
     THEN << Strip(FirstField(forwarded[1])) >>
     ELSE << >>

\* extract_client_ip, ingest_controller.py lines 16-33
extract_client_ip(r) ==
  LET forwarded == HeaderGet(r.headers, "x-forwarded-for")
  IN IF forwarded # << >> /\ forwarded[1] # << >>
     THEN << Strip(FirstField(forwarded[1])) >>
     ELSE r.client

\* get_content_length: << >> is None
\* get_content_length accepting nothing but decimal digits
get_content_length_DigitsOnly(r) ==
  LET content_length == HeaderGet(r.headers, "content-length")
  IN IF content_length # << >> /\ content_length[1] # << >>
        /\ \A i \in DOMAIN content_length[1] : IsDigit(content_length[1][i])
     THEN << DigitsValue(content_length[1], 0) >>
     ELSE << >>

get_content_length(r) ==
  LET content_length == HeaderGet(r.headers, "content-length")
  IN IF content_length # << >> /\ content_length[1] # << >>
     THEN IF ParseInt(content_length[1]).ok
          THEN << ParseInt(content_length[1]).val >>
          ELSE << >>
     ELSE << >>

(***************************************************************************)
(* Configuration (Settings) and identifiers.                               *)
(***************************************************************************)
\* settings.admin_token
admin_token == "admin"

\* the fields of Settings the handlers read: config.py declares no base_url
\* field, and extra="ignore" drops one given in the environment
settings == [admin_token |-> admin_token, max_body_size |-> max_body_size]

\* the routes whose handler evaluates settings.base_url
ReadsBaseUrl == {"create_bin", "list_bins", "get_bin"}

\* the base_url a caller of BinService passes, "http://t/" as code points
base_url == << 104, 116, 116, 112, 58, 47, 47, 116, 47 >>

\* "b_" + token and "e_" + token; a token is a natural number
BinId(tok) == << "b_", tok >>
EventId(tok) == << "e_", tok >>

\* Bin.ingest_url(base_url): base + "/b/" + id, kept as its three parts
ingest_url(b, base) == << RStripSlash(base), "/b/", b.id >>

(***************************************************************************)
(* Requests.  layer "http" enters through a route of the application,      *)
(* layer "service" calls the service method directly (as the unit tests    *)
(* do).  Optional values are << >> (absent) or << v >>.                    *)
(***************************************************************************)
BaseReq ==
  [kind |-> "none", layer |-> "http", auth |-> << >>,
   bin_id |-> BinId(0), event_id |-> EventId(0),
   name |-> << >>, limit |-> << >>,
   method |-> "GET", rest |-> << >>, path |-> << >>, query |-> << >>,
   headers |-> << >>,
   body |-> << >>, client |-> << >>, max |-> 0, draw |-> << >>,
   base_url |-> base_url]

AdminKinds == {"create_bin", "list_bins", "get_bin", "list_events", "get_event"}

\* the arguments of a service call, before any request has filled them in
NoArgs ==
  [bin_id |-> BinId(0), event_id |-> EventId(0), name |-> << >>,
   limit |-> 0, method |-> "GET", path |-> << >>,
   query_params |-> << >>, headers |-> << >>,
   body_bytes |-> << >>, remote_ip |-> << >>,
   max_body_size |-> 0, base_url |-> << >>]

\* args: the service call's arguments; txn: << start time >> once the
\* session's transaction has begun; row: << row >> once a row is flushed
\* and not yet committed; seen: the bin ids in the table when this request
\* looked its bin up; trace: the steps taken so far; session: << n >>
\* while the request holds session n of the factory
NoLoc ==
  [args |-> NoArgs, txn |-> << >>, row |-> << >>, seen |-> {},
   trace |-> << >>, session |-> << >>]

NoOut == [svc |-> [kind |-> "pending"], http |-> [status |-> 0]]

VARIABLES
  bins,      \* table bins: the committed rows, in commit order
  events,    \* table events: the committed rows, in commit order
  clock,     \* the database server's clock, read by now()
  pc,        \* per slot: where the request's task stands
  req,       \* per slot: the request being served
  loc,       \* per slot: the task's locals (service arguments, session)
  out,       \* per slot: the service's outcome and the HTTP response
  captured   \* history: per committed event, the bytes received, the bin
             \* ids its lookup saw and the ingests open at its commit

vars == << bins, events, clock, pc, req, loc, out, captured >>

Slots == {1, 2}

Init ==
  /\ bins = << >>
  /\ events = << >>
  /\ clock = 0
  /\ pc = [s \in Slots |-> "idle"]
  /\ req = [s \in Slots |-> BaseReq]
  /\ loc = [s \in Slots |-> NoLoc]
  /\ out = [s \in Slots |-> NoOut]
  /\ captured = {}

(***************************************************************************)
(* Sessions of the store.                                                  *)
(***************************************************************************)
\* the sessions requests hold
OpenSessions ==
  {loc[t].session[1] : t \in {u \in Slots : loc[u].session # << >>}}

\* get_db_session: the factory makes a session for the request; sessions
\* are interchangeable, so the least one no request holds stands for it
get_db_session ==
  << CHOOSE n \in 1..(Cardinality(OpenSessions) + 1) :
       /\ n \notin OpenSessions
       /\ \A m \in 1..(n - 1) : m \in OpenSessions >>

\* the locals of a request whose route depends on get_db_session
WithSession == [NoLoc EXCEPT !.session = get_db_session]

(***************************************************************************)
(* Queries of the repositories.                                            *)
(***************************************************************************)
Rows(table) == {table[i] : i \in DOMAIN table}

BinIds == {b.id : b \in Rows(bins)}

\* get_by_id with its WHERE clause lost: the first row of the table
get_by_id_AnyRow(table, id) ==
  IF table # << >> THEN << table[1] >> ELSE << >>

\* BinRepository.get_by_id / EventRepository.get_by_id: << >> is None
get_by_id(table, id) ==
  IF \E r \in Rows(table) : r.id = id
  THEN << CHOOSE r \in Rows(table) : r.id = id >>
  ELSE << >>

\* every order of the rows S, which all carry the same created_at: the
\* database returns the rows of a tie in any order
RECURSIVE AnyOrder(_)
AnyOrder(S) ==
  IF S = {} THEN {<< >>}
  ELSE UNION {{<< r >> \o rest : rest \in AnyOrder(S \ {r})} : r \in S}

\* ORDER BY created_at DESC over the rows S, whose created_at lie in
\* lo..hi: the later half of the interval first, then the earlier half
RECURSIVE OrderedBetween(_, _, _)
OrderedBetween(S, lo, hi) ==
  IF S = {} THEN {<< >>}
  ELSE IF lo >= hi THEN AnyOrder(S)
  ELSE LET mid == (lo + hi) \div 2
           later == {r \in S : r.created_at > mid}
       IN {a \o b : a \in OrderedBetween(later, mid + 1, hi),
                    b \in OrderedBetween(S \ later, lo, mid)}

\* OrderedDesc with the order reversed: ORDER BY created_at ASC LIMIT n
OrderedDesc_Asc(S, t, n) ==
  {[i \in 1..Min(n, Len(q)) |-> q[Len(q) + 1 - i]] :
     q \in OrderedBetween(S, 0, t)}

\* ORDER BY created_at DESC LIMIT n over the rows S, t being the latest
\* possible created_at: every sequence the database may return
OrderedDesc(S, t, n) ==
  {SubSeq(q, 1, Min(n, Len(q))) : q \in OrderedBetween(S, 0, t)}

\* list_by_bin without its WHERE bin_id = ... clause
list_by_bin_AnyBin(bin_id, limit) ==
  OrderedDesc(Rows(events), clock, limit)

\* EventRepository.list_by_bin
list_by_bin(bin_id, limit) ==
  OrderedDesc({e \in Rows(events) : e.bin_id = bin_id}, clock, limit)

\* list_all with the ceiling of the event listings
list_all_Limited == OrderedDesc(Rows(bins), clock, Min(Len(bins), MAX_LIMIT))

\* BinRepository.list_all (no LIMIT)
list_all == OrderedDesc(Rows(bins), clock, Len(bins))

(***************************************************************************)
(* Domain properties and DTOs.                                             *)
(***************************************************************************)
\* size_bytes as the length of the encoded text
size_bytes_Encoded(e) == Len(e.body_b64)

\* Event.size_bytes
size_bytes(e) ==
  IF e.body_b64 = << >> THEN 0 ELSE Len(B64Decode(e.body_b64))

\* EventService._to_summary
to_summary(e) ==
  [id |-> e.id, method |-> e.method, path |-> e.path,
   size_bytes |-> size_bytes(e), created_at |-> e.created_at]

\* from_event without the decoding: the body as it is stored
from_event_Raw(e) ==
  [id |-> e.id, bin_id |-> e.bin_id, method |-> e.method,
   path |-> e.path, query_params |-> e.query_params,
   headers |-> e.headers, body |-> e.body_b64, remote_ip |-> e.remote_ip,
   size_bytes |-> size_bytes(e), created_at |-> e.created_at]

\* EventDetail.from_event
from_event(e) ==
  LET body == IF e.body_b64 # << >>
              THEN IF Utf8Valid(B64Decode(e.body_b64))
                   THEN Utf8Text(B64Decode(e.body_b64))
                   ELSE e.body_b64
              ELSE << >>
  IN [id |-> e.id, bin_id |-> e.bin_id, method |-> e.method,
      path |-> e.path, query_params |-> e.query_params,
      headers |-> e.headers, body |-> body, remote_ip |-> e.remote_ip,
      size_bytes |-> size_bytes(e), created_at |-> e.created_at]

\* BinService._to_response
to_response(b, base) ==
  [id |-> b.id, name |-> b.name, ingest_url |-> ingest_url(b, base),
   created_at |-> b.created_at]

(***************************************************************************)
(* Error responses (errors.py, auth.py).                                   *)
(***************************************************************************)
\* an HTTPException as the framework's handler answers it: no handler of
\* the application replaces it, so the JSON body is {"detail": detail}
HTTPException(status_code, detail) ==
  [status |-> status_code, body |-> [detail |-> detail]]

unauthorized_error(message) ==
  HTTPException(401, [error |-> [code |-> "UNAUTHORIZED",
                                 message |-> << message >>]])

not_found_error(resource, resource_id) ==
  HTTPException(404,
    [error |-> [code |-> "NOT_FOUND",
                message |-> << resource, " '", resource_id, "' not found" >>]])

\* payload_too_large_error with its two sizes exchanged in the message
payload_too_large_error_Swapped(max_size, actual_size) ==
  HTTPException(413,
    [error |-> [code |-> "PAYLOAD_TOO_LARGE",
                message |-> << "Request body size (", max_size,
                               " bytes) exceeds maximum allowed (",
                               actual_size, " bytes)" >>]])

payload_too_large_error(max_size, actual_size) ==
  HTTPException(413,
    [error |-> [code |-> "PAYLOAD_TOO_LARGE",
                message |-> << "Request body size (", actual_size,
                               " bytes) exceeds maximum allowed (",
                               max_size, " bytes)" >>]])

\* the framework's answer to a query parameter outside its declared range:
\* detail lists the parameters refused
validation_error == [status |-> 422, body |-> [detail |-> << "limit" >>]]

(***************************************************************************)
(* Arguments of the service call, as the route and the controller build    *)
(* them from the request.                                                  *)
(***************************************************************************)
\* the methods the two ingest routes are registered for
IngestMethods ==
  {"GET", "POST", "PUT", "DELETE", "PATCH", "HEAD", "OPTIONS"}

\* the path parameter with the separating slash left in
PathOf_Whole(r) == r.rest

\* the path parameter, r.rest being the request path after /b/<bin_id>:
\* "" on the root route /b/{bin_id}; on /b/{bin_id}/{path:path} what follows
\* the slash (code point 47) that separates it from the bin id
PathOf(r) == IF r.rest = << >> THEN << >> ELSE Tail(r.rest)

\* a caller of the service passes its mappings as they are
RawDict(ps) ==
  [k \in {ps[i][1] : i \in DOMAIN ps} |->
     ps[CHOOSE i \in DOMAIN ps : ps[i][1] = k][2]]

\* IngestController.ingest, lines 96-113, and the routes' other parameters
HttpArgs(r) ==
  [bin_id |-> r.bin_id, event_id |-> r.event_id, name |-> r.name,
   limit |-> IF r.limit = << >> THEN 50 ELSE r.limit[1],
   method |-> r.method, path |-> PathOf(r),
   query_params |-> QueryDict(r.query), headers |-> HeadersDict(r.headers),
   body_bytes |-> r.body, remote_ip |-> extract_client_ip(r),
   max_body_size |-> settings.max_body_size,
   base_url |-> IF "base_url" \in DOMAIN settings
                THEN settings.base_url ELSE << >>]

\* a direct call of a service method; an omitted limit takes the default
ServiceArgs(r) ==
  [bin_id |-> r.bin_id, event_id |-> r.event_id, name |-> r.name,
   limit |-> IF r.limit = << >> THEN DEFAULT_LIMIT ELSE r.limit[1],
   method |-> r.method, path |-> r.path,
   query_params |-> RawDict(r.query), headers |-> RawDict(r.headers),
   body_bytes |-> r.body, remote_ip |-> r.client,
   max_body_size |-> r.max, base_url |-> r.base_url]

\* FirstStep with ingest_request going to the insert without a bin lookup
FirstStep_NoLookup(kind) ==
  CASE kind = "ingest" -> "insert_event"
    [] kind = "get_bin" -> "select_bin"
    [] kind = "list_events" -> "select_bin"
    [] kind = "create_bin" -> "insert_bin"
    [] kind = "list_bins" -> "select_bins"
    [] kind = "get_event" -> "select_event"

\* the first database statement of each operation
FirstStep(kind) ==
  CASE kind = "ingest" -> "select_bin"
    [] kind = "get_bin" -> "select_bin"
    [] kind = "list_events" -> "select_bin"
    [] kind = "create_bin" -> "insert_bin"
    [] kind = "list_bins" -> "select_bins"
    [] kind = "get_event" -> "select_event"

NotCalled == [kind |-> "not_called"]

NoHttp == [status |-> 0]

\* PayloadTooLargeError(max_size, actual_size)
PayloadTooLargeError(max_size, actual_size) ==
  [kind |-> "raised", error |-> "PayloadTooLargeError",
   max_size |-> max_size, actual_size |-> actual_size]

\* the measured-size check with >= for >
TooLarge_AtLeast(body_size, max_size) == body_size >= max_size

\* EventService.ingest_request, lines 141-142: the measured-size check
TooLarge(body_size, max_size) == body_size > max_size

\* IngestController.ingest, lines 92-93: the declared-size check
DeclaredTooLarge(content_length, max_size) ==
  content_length # << >> /\ content_length[1] > max_size

(***************************************************************************)
(* A request arrives.  Everything up to the first database statement.      *)
(***************************************************************************)
\* the request of slot s ends here with outcome svc and response http
End(s, l, svc, http) ==
  /\ pc' = [pc EXCEPT ![s] = "done"]
  /\ loc' = [loc EXCEPT ![s] = l]
  /\ out' = [out EXCEPT ![s] = [svc |-> svc, http |-> http]]

\* the request of slot s goes on to the statement at label
Goto(s, l, label) ==
  /\ pc' = [pc EXCEPT ![s] = label]
  /\ loc' = [loc EXCEPT ![s] = l]
  /\ out' = [out EXCEPT ![s] = NoOut]

\* routes/v1/ingest.py and IngestController.ingest up to the bin lookup
ReceiveIngest(s, r) ==
  /\ pc[s] = "idle"
  /\ r.kind = "ingest" /\ r.layer = "http"
  /\ req' = [req EXCEPT ![s] = r]
  /\ UNCHANGED << bins, events, clock, captured >>
  /\ LET content_length == get_content_length(r)
         a == HttpArgs(r)
         body_size == Len(a.body_bytes)
         early == [WithSession EXCEPT !.args = a,
                                !.trace = << "content_length_check" >>]
         read == [WithSession EXCEPT !.args = a,
                               !.trace = << "content_length_check",
                                            "body_read", "size_check" >>]
     \* no route is registered for the method: the router answers 405
     IN IF r.method \notin IngestMethods
        THEN End(s, NoLoc, NotCalled, [status |-> 405])
        ELSE IF DeclaredTooLarge(content_length, settings.max_body_size)
        THEN End(s, early, NotCalled,
                 payload_too_large_error(settings.max_body_size,
                                         content_length[1]))
        ELSE IF TooLarge(body_size, a.max_body_size)
        THEN End(s, read, PayloadTooLargeError(a.max_body_size, body_size),
                 payload_too_large_error(a.max_body_size, body_size))
        ELSE Goto(s, read, "select_bin")

\* verify_admin_token without the comparison of the token
verify_admin_token_AnyToken(credentials) ==
  IF credentials = << >>
  THEN << unauthorized_error("Missing authentication token") >>
  ELSE << >>

\* verify_admin_token: << >> when the credentials are accepted, else the
\* 401 it raises
verify_admin_token(credentials) ==
  IF credentials = << >>
  THEN << unauthorized_error("Missing authentication token") >>
  ELSE IF credentials[1] # settings.admin_token
  THEN << unauthorized_error("Invalid authentication token") >>
  ELSE << >>

\* the route's dependencies (session, AdminAuth), then the declared range
\* of the limit parameter
ReceiveAdmin(s, r) ==
  /\ pc[s] = "idle"
  /\ r.kind \in AdminKinds /\ r.layer = "http"
  /\ req' = [req EXCEPT ![s] = r]
  /\ UNCHANGED << bins, events, clock, captured >>
  /\ LET l == [WithSession EXCEPT !.args = HttpArgs(r), !.trace = << "auth" >>]
         denied == verify_admin_token(r.auth)
     IN IF denied # << >>
        THEN End(s, l, NotCalled, denied[1])
        ELSE IF /\ r.kind = "list_events"
                /\ r.limit # << >>
                /\ ~(r.limit[1] >= 1 /\ r.limit[1] <= 100)
        THEN End(s, l, NotCalled, validation_error)
        \* settings.base_url raises AttributeError in the route function
        ELSE IF r.kind \in ReadsBaseUrl /\ "base_url" \notin DOMAIN settings
        THEN End(s, l, NotCalled, [status |-> 500])
        ELSE Goto(s, l, FirstStep(r.kind))

\* a direct call of a method of EventService or BinService
CallService(s, r) ==
  /\ pc[s] = "idle"
  /\ r.layer = "service"
  /\ req' = [req EXCEPT ![s] = r]
  /\ UNCHANGED << bins, events, clock, captured >>
  /\ LET a == ServiceArgs(r)
         body_size == Len(a.body_bytes)
         l == [NoLoc EXCEPT !.args = a,
                            !.trace = IF r.kind = "ingest"
                                      THEN << "size_check" >> ELSE << >>]
     IN IF r.kind = "ingest" /\ TooLarge(body_size, a.max_body_size)
        THEN End(s, l, PayloadTooLargeError(a.max_body_size, body_size), NoHttp)
        ELSE Goto(s, l, FirstStep(r.kind))

(***************************************************************************)
(* The database statements of a request, one action each.                  *)
(***************************************************************************)
\* the response a controller builds; a direct service call has none
Http(s, response) == IF req[s].layer = "http" THEN response ELSE NoHttp

\* the session begins its transaction at its first statement; now() is the
\* transaction's start time
Begun(s) == IF loc[s].txn = << >> THEN << clock >> ELSE loc[s].txn

\* tokens of the rows flushed by a session and not yet committed
PendingTokens(prefix) ==
  {loc[t].row[1].id[2] :
     t \in {u \in Slots : loc[u].row # << >> /\ loc[u].row[1].id[1] = prefix}}

UsedTokens(table, prefix) ==
  {r.id[2] : r \in Rows(table)} \cup PendingTokens(prefix)

\* secrets.token_urlsafe(12): 96 random bits.  Tokens are interchangeable,
\* so the least unused one stands for every token no row carries; a request
\* whose draw is << n >> is one during which the generator returns n,
\* whether or not a row carries it.
token_urlsafe(table, prefix, draw) ==
  IF draw # << >> THEN {draw[1]}
  ELSE {CHOOSE n \in 1..(Cardinality(UsedTokens(table, prefix)) + 1) :
          /\ n \notin UsedTokens(table, prefix)
          /\ \A m \in 1..(n - 1) : m \in UsedTokens(table, prefix)}

\* the primary key without its unique index
PrimaryKeyTaken_Never(table, id) == FALSE

\* id is the primary key of bins and of events: an INSERT of an id some
\* committed row carries raises IntegrityError
PrimaryKeyTaken(table, id) == \E r \in Rows(table) : r.id = id

\* SelectBin with ingest_request going on to the insert whatever the
\* lookup returned
SelectBin_Unchecked(s) ==
  /\ pc[s] = "select_bin"
  /\ UNCHANGED << bins, events, clock, req, captured >>
  /\ LET a == loc[s].args
         bin_obj == get_by_id(bins, a.bin_id)
         l == [loc[s] EXCEPT !.txn = Begun(s), !.seen = BinIds,
                             !.trace = @ \o << "select_bin" >>]
     IN IF req[s].kind = "ingest" THEN Goto(s, l, "insert_event")
        ELSE IF bin_obj = << >>
        THEN End(s, l, [kind |-> "none"],
                 Http(s, not_found_error("Bin", a.bin_id)))
        ELSE IF req[s].kind = "list_events" THEN Goto(s, l, "select_events")
        ELSE End(s, l,
                 [kind |-> "bin", bin |-> to_response(bin_obj[1], a.base_url)],
                 Http(s, [status |-> 200,
                          bin |-> to_response(bin_obj[1], a.base_url)]))

\* BinRepository.get_by_id as the first statement of ingest_request,
\* list_events_by_bin and get_bin
SelectBin(s) ==
  /\ pc[s] = "select_bin"
  /\ UNCHANGED << bins, events, clock, req, captured >>
  /\ LET a == loc[s].args
         bin_obj == get_by_id(bins, a.bin_id)
         l == [loc[s] EXCEPT !.txn = Begun(s), !.seen = BinIds,
                             !.trace = @ \o << "select_bin" >>]
     IN IF bin_obj = << >>
        THEN End(s, l, [kind |-> "none"],
                 Http(s, not_found_error("Bin", a.bin_id)))
        ELSE IF req[s].kind = "ingest" THEN Goto(s, l, "insert_event")
        ELSE IF req[s].kind = "list_events" THEN Goto(s, l, "select_events")
        ELSE End(s, l,
                 [kind |-> "bin", bin |-> to_response(bin_obj[1], a.base_url)],
                 Http(s, [status |-> 200,
                          bin |-> to_response(bin_obj[1], a.base_url)]))

\* the row EventRepository.create builds from its arguments
NewEvent(a, tok, now) ==
  [id |-> EventId(tok), bin_id |-> a.bin_id, method |-> a.method,
   path |-> a.path, query_params |-> a.query_params, headers |-> a.headers,
   body_b64 |-> B64Encode(a.body_bytes), remote_ip |-> a.remote_ip,
   created_at |-> now]

\* InsertEvent building its row from arguments the service keeps in a
\* field shared by the requests in flight: those of the latest arrival
InsertEvent_SharedArgs(s) ==
  /\ pc[s] = "insert_event"
  /\ UNCHANGED << bins, events, clock, req, captured >>
  /\ \E tok \in token_urlsafe(events, "e_", req[s].draw) :
       LET others == {t \in Slots \ {s} : pc[t] \in {"select_bin",
                                                        "insert_event"}}
           a == IF others = {} THEN loc[s].args
                ELSE loc[CHOOSE t \in others : TRUE].args
       IN /\ tok \notin PendingTokens("e_")
          /\ Goto(s, [loc[s] EXCEPT
                        !.row = << NewEvent(a, tok, Begun(s)[1]) >>,
                        !.trace = @ \o << "insert_event" >>],
                  "commit_event")

\* ingest_request line 149 and EventRepository.create: add, flush, refresh
InsertEvent(s) ==
  /\ pc[s] = "insert_event"
  /\ UNCHANGED << bins, events, clock, req, captured >>
  /\ \E tok \in token_urlsafe(events, "e_", req[s].draw) :
       \* an INSERT of an id another session has flushed waits for that
       \* session's commit
       /\ tok \notin PendingTokens("e_")
       /\ IF /\ loc[s].args.bin_id \in BinIds
             /\ ~PrimaryKeyTaken(events, EventId(tok))
          THEN Goto(s, [loc[s] EXCEPT
                          !.row = << NewEvent(loc[s].args, tok, Begun(s)[1]) >>,
                          !.trace = @ \o << "insert_event" >>],
                    "commit_event")
          \* events.bin_id REFERENCES bins(id), and id is the primary key: the
          \* flush raises IntegrityError
          ELSE End(s, [loc[s] EXCEPT !.trace = @ \o << "insert_event" >>],
                   [kind |-> "raised", error |-> "IntegrityError"],
                   Http(s, [status |-> 500]))

\* the start times of the transactions of the other ingests that have run
\* their bin lookup and not yet committed
OpenIngests(s) ==
  {loc[t].txn[1] :
     t \in {u \in Slots \ {s} : pc[u] \in {"insert_event", "commit_event"}}}

\* CommitEvent writing the row over the latest stored event instead of
\* adding it (an upsert)
CommitEvent_Upsert(s) ==
  /\ pc[s] = "commit_event"
  /\ LET event == loc[s].row[1]
     IN /\ events' = IF events = << >> THEN << event >>
                      ELSE [events EXCEPT ![Len(events)] = event]
        /\ captured' = captured \cup
             {[id |-> event.id, body |-> loc[s].args.body_bytes,
               seen |-> loc[s].seen, open |-> OpenIngests(s)]}
        /\ End(s, [loc[s] EXCEPT !.row = << >>,
                                 !.trace = @ \o << "commit" >>],
               [kind |-> "event", event |-> event],
               Http(s, [status |-> 200, ok |-> TRUE, event_id |-> event.id]))
  /\ clock' = clock + 1
  /\ UNCHANGED << bins, req >>

\* ingest_request lines 162-163 and the controller's answer
CommitEvent(s) ==
  /\ pc[s] = "commit_event"
  /\ LET event == loc[s].row[1]
     IN /\ events' = Append(events, event)
        /\ captured' = captured \cup
             {[id |-> event.id, body |-> loc[s].args.body_bytes,
               seen |-> loc[s].seen, open |-> OpenIngests(s)]}
        /\ End(s, [loc[s] EXCEPT !.row = << >>,
                                 !.trace = @ \o << "commit" >>],
               [kind |-> "event", event |-> event],
               Http(s, [status |-> 200, ok |-> TRUE, event_id |-> event.id]))
  /\ clock' = clock + 1
  /\ UNCHANGED << bins, req >>

\* the row BinRepository.create builds
NewBin(a, tok, now) ==
  [id |-> BinId(tok), name |-> a.name, created_at |-> now]

\* BinRepository.create: add, flush, refresh
InsertBin(s) ==
  /\ pc[s] = "insert_bin"
  /\ UNCHANGED << bins, events, clock, req, captured >>
  /\ \E tok \in token_urlsafe(bins, "b_", req[s].draw) :
       /\ tok \notin PendingTokens("b_")
       /\ IF ~PrimaryKeyTaken(bins, BinId(tok))
          THEN Goto(s, [loc[s] EXCEPT
                          !.txn = Begun(s),
                          !.row = << NewBin(loc[s].args, tok, Begun(s)[1]) >>,
                          !.trace = @ \o << "insert_bin" >>],
                    "commit_bin")
          ELSE End(s, [loc[s] EXCEPT !.txn = Begun(s),
                                     !.trace = @ \o << "insert_bin" >>],
                   [kind |-> "raised", error |-> "IntegrityError"],
                   Http(s, [status |-> 500]))

\* create_bin returning its response without the commit: the row stays
\* flushed in the session and is rolled back when the session is closed
CommitBin_NoCommit(s) ==
  /\ pc[s] = "commit_bin"
  /\ LET bin_obj == loc[s].row[1]
         response == to_response(bin_obj, loc[s].args.base_url)
     IN End(s, [loc[s] EXCEPT !.row = << >>],
            [kind |-> "bin", bin |-> response],
            Http(s, [status |-> 201, bin |-> response]))
  /\ UNCHANGED << bins, events, clock, req, captured >>

\* BinService.create_bin lines 61-62
CommitBin(s) ==
  /\ pc[s] = "commit_bin"
  /\ LET bin_obj == loc[s].row[1]
         response == to_response(bin_obj, loc[s].args.base_url)
     IN /\ bins' = Append(bins, bin_obj)
        /\ End(s, [loc[s] EXCEPT !.row = << >>,
                                 !.trace = @ \o << "commit" >>],
               [kind |-> "bin", bin |-> response],
               Http(s, [status |-> 201, bin |-> response]))
  /\ clock' = clock + 1
  /\ UNCHANGED << events, req, captured >>

\* BinService.list_bins
SelectBins(s) ==
  /\ pc[s] = "select_bins"
  /\ UNCHANGED << bins, events, clock, req, captured >>
  /\ \E result \in list_all :
       LET items == [i \in DOMAIN result |->
                       to_response(result[i], loc[s].args.base_url)]
       IN End(s, [loc[s] EXCEPT !.txn = Begun(s),
                                !.trace = @ \o << "select_bins" >>],
              [kind |-> "bins", items |-> items],
              Http(s, [status |-> 200, bins |-> items]))

\* effective_limit without the ceiling
effective_limit_Unclamped(limit) == limit

\* EventService.list_events_by_bin line 105
effective_limit(limit) == Min(limit, MAX_LIMIT)

\* SelectEvents returning None for an empty result
SelectEvents_NoneWhenEmpty(s) ==
  /\ pc[s] = "select_events"
  /\ UNCHANGED << bins, events, clock, req, captured >>
  /\ \E result \in list_by_bin(loc[s].args.bin_id,
                               effective_limit(loc[s].args.limit)) :
       LET items == [i \in DOMAIN result |-> to_summary(result[i])]
           l == [loc[s] EXCEPT !.trace = @ \o << "select_events" >>]
       IN IF result = << >>
          THEN End(s, l, [kind |-> "none"],
                   Http(s, not_found_error("Bin", loc[s].args.bin_id)))
          ELSE End(s, l, [kind |-> "events", items |-> items],
                   Http(s, [status |-> 200, events |-> items]))

\* EventService.list_events_by_bin lines 105-108
SelectEvents(s) ==
  /\ pc[s] = "select_events"
  /\ UNCHANGED << bins, events, clock, req, captured >>
  /\ \E result \in list_by_bin(loc[s].args.bin_id,
                               effective_limit(loc[s].args.limit)) :
       LET items == [i \in DOMAIN result |-> to_summary(result[i])]
       IN End(s, [loc[s] EXCEPT !.trace = @ \o << "select_events" >>],
              [kind |-> "events", items |-> items],
              Http(s, [status |-> 200, events |-> items]))

\* EventService.get_event and EventController.get_event
SelectEvent(s) ==
  /\ pc[s] = "select_event"
  /\ UNCHANGED << bins, events, clock, req, captured >>
  /\ LET a == loc[s].args
         event == get_by_id(events, a.event_id)
         l == [loc[s] EXCEPT !.txn = Begun(s),
                             !.trace = @ \o << "select_event" >>]
     IN IF event = << >>
        THEN End(s, l, [kind |-> "none"],
                 Http(s, not_found_error("Event", a.event_id)))
        ELSE End(s, l, [kind |-> "detail", detail |-> from_event(event[1])],
                 Http(s, [status |-> 200, detail |-> from_event(event[1])]))

\* Finish with a session that is closed after the route function returns
\* and kept when it raises
Finish_KeepsFailed(s) ==
  /\ pc[s] = "done"
  /\ pc' = [pc EXCEPT ![s] = "idle"]
  /\ req' = [req EXCEPT ![s] = BaseReq]
  /\ loc' = [loc EXCEPT ![s] = IF out[s].http.status = 500
                                THEN [NoLoc EXCEPT !.session = loc[s].session]
                                ELSE NoLoc]
  /\ out' = [out EXCEPT ![s] = NoOut]
  /\ UNCHANGED << bins, events, clock, captured >>

\* the response is sent and the session closed; the task ends
Finish(s) ==
  /\ pc[s] = "done"
  /\ pc' = [pc EXCEPT ![s] = "idle"]
  /\ req' = [req EXCEPT ![s] = BaseReq]
  /\ loc' = [loc EXCEPT ![s] = NoLoc]
  /\ out' = [out EXCEPT ![s] = NoOut]
  /\ UNCHANGED << bins, events, clock, captured >>

\* time passes on the database server while requests are in flight
Tick ==
  /\ \E s \in Slots : pc[s] \notin {"idle", "done"}
  /\ clock < Len(bins) + Len(events) + MaxTicks
  /\ clock' = clock + 1
  /\ UNCHANGED << bins, events, pc, req, loc, out, captured >>

(***************************************************************************)
(* The requests the specifications send.                                   *)
(***************************************************************************)
\* str(n) for n >= 0
RECURSIVE ToDigits(_)
ToDigits(n) ==
  IF n < 10 THEN << 48 + n >> ELSE ToDigits(n \div 10) \o << 48 + (n % 10) >>

XTest == << "X-Test", << 118 >> >>
ContentLength(n) == << "Content-Length", ToDigits(n) >>
\* Content-Length: abc
BadContentLength == << "Content-Length", << 97, 98, 99 >> >>
\* the peer address "10.1"
Peer == << << 49, 48, 46, 49 >> >>

\* "hi"
TextBody == << 104, 105 >>
\* max_body_size times "x", and one more
AtMaxBody == [i \in 1..max_body_size |-> 120]
OverMaxBody == [i \in 1..(max_body_size + 1) |-> 120]

\* "hook"
Hook == << 104, 111, 111, 107 >>

IngestReq(layer, bin_id, body, headers) ==
  [BaseReq EXCEPT !.kind = "ingest", !.layer = layer, !.bin_id = bin_id,
                  !.method = "POST", !.rest = << 47 >> \o Hook,
                  !.path = Hook,
                  !.headers = headers, !.body = body, !.client = Peer,
                  !.max = max_body_size]

AdminReq(kind, layer, auth) ==
  [BaseReq EXCEPT !.kind = kind, !.layer = layer, !.auth = auth]

\* no credentials, a wrong token, the admin token
Auths == {<< >>, << "wrong" >>, << admin_token >>}

\* the header sets an ingest is sent with: no Content-Length, the true one,
\* one that declares more than the limit and differs from the body's
\* length, one that is no integer
HeaderSets(body) ==
  {<< XTest >>,
   << XTest, ContentLength(Len(body)) >>,
   << XTest, ContentLength(max_body_size + 2) >>,
   << XTest, BadContentLength >>}

\* the requests of the sequential specification
SeqRequests ==
  {IngestReq("http", b, body, h) :
     b \in {BinId(0), BinId(1)}, body \in {AtMaxBody, OverMaxBody},
     h \in HeaderSets(AtMaxBody) \cup HeaderSets(OverMaxBody)}
  \cup {IngestReq("service", b, body, << >>) :
          b \in {BinId(0), BinId(1)}, body \in {AtMaxBody, OverMaxBody}}
  \cup {[AdminReq("create_bin", "http", a) EXCEPT !.name = << "A" >>] :
          a \in Auths}
  \cup {AdminReq("list_bins", "http", a) : a \in Auths}
  \cup {[AdminReq("create_bin", "service", << >>) EXCEPT !.name = << "A" >>],
        AdminReq("list_bins", "service", << >>)}
  \cup {[AdminReq("get_bin", "service", << >>) EXCEPT !.bin_id = b] :
          b \in {BinId(0), BinId(1)}}
  \cup {[AdminReq("get_bin", "http", a) EXCEPT !.bin_id = b] :
          a \in Auths, b \in {BinId(0), BinId(1)}}
  \cup {[AdminReq("list_events", "http", a) EXCEPT !.bin_id = b] :
          a \in Auths, b \in {BinId(0), BinId(1), BinId(2)}}
  \cup {[AdminReq("list_events", "http", << admin_token >>)
           EXCEPT !.bin_id = BinId(1), !.limit = << k >>] : k \in {0, 1, 101}}
  \cup {[AdminReq("list_events", "service", << >>)
           EXCEPT !.bin_id = b, !.limit = k] :
          b \in {BinId(0), BinId(1), BinId(2)}, k \in {<< >>, << 1 >>}}
  \cup {[AdminReq("get_event", "http", a) EXCEPT !.event_id = e] :
          a \in Auths, e \in {EventId(0), EventId(1)}}

\* the requests of the concurrent specification
Requests ==
  {IngestReq("http", BinId(1), TextBody, << XTest >>),
   AdminReq("create_bin", "service", << >>)}

\* the requests of R that enter through the given layer
Via(R, layer) == {r \in R : r.layer = layer}
IngestsOf(R) == {r \in R : r.kind = "ingest"}
OthersOf(R) == {r \in R : r.kind # "ingest"}

\* requests in flight that will write a row unless their bin is missing
Writing(labels) == Cardinality({t \in Slots : pc[t] \in labels})

\* an ingest is taken up only while the events table has room for its row
AdmitIngest(maxEvents) ==
  Len(events) + Writing({"insert_event", "commit_event"})
    + Cardinality({t \in Slots : pc[t] = "select_bin"
                                  /\ req[t].kind = "ingest"}) < maxEvents

\* a create_bin is taken up only while the bins table has room for its row
Admit(r, maxBins) ==
  r.kind = "create_bin" =>
    Len(bins) + Writing({"insert_bin", "commit_bin"}) < maxBins

(***************************************************************************)
(* Spec: bin creations and ingests served concurrently, one task per       *)
(* slot, interleaved at every database statement.                          *)
(***************************************************************************)
Next ==
  \/ \E s \in Slots :
       /\ pc[s] = "idle" /\ AdmitIngest(MaxEvents)
       /\ \E r \in Via(IngestsOf(Requests), "http") : ReceiveIngest(s, r)
  \/ \E s \in Slots :
       /\ pc[s] = "idle"
       /\ \E r \in Via(OthersOf(Requests), "service") :
            Admit(r, MaxBins) /\ CallService(s, r)
  \/ \E s \in Slots : SelectBin(s)
  \/ \E s \in Slots : InsertEvent(s)
  \/ \E s \in Slots : CommitEvent(s)
  \/ \E s \in Slots : InsertBin(s)
  \/ \E s \in Slots : CommitBin(s)
  \/ \E s \in Slots : Finish(s)
  \/ Tick

Spec == Init /\ [][Next]_vars

(***************************************************************************)
(* SpecSeq: one request at a time, over the wider set of requests.         *)
(***************************************************************************)
NextSeq ==
  \/ /\ pc[1] = "idle" /\ AdmitIngest(MaxEvents)
     /\ \E r \in Via(IngestsOf(SeqRequests), "http") : ReceiveIngest(1, r)
  \/ /\ pc[1] = "idle" /\ AdmitIngest(MaxEvents)
     /\ \E r \in Via(IngestsOf(SeqRequests), "service") : CallService(1, r)
  \/ /\ pc[1] = "idle"
     /\ \E r \in Via(OthersOf(SeqRequests), "http") :
          Admit(r, MaxBins) /\ ReceiveAdmin(1, r)
  \/ /\ pc[1] = "idle"
     /\ \E r \in Via(OthersOf(SeqRequests), "service") :
          Admit(r, MaxBins) /\ CallService(1, r)
  \/ SelectBin(1)
  \/ InsertEvent(1)
  \/ CommitEvent(1)
  \/ InsertBin(1)
  \/ CommitBin(1)
  \/ SelectBins(1)
  \/ SelectEvents(1)
  \/ SelectEvent(1)
  \/ Finish(1)

SpecSeq == Init /\ [][NextSeq]_vars

(***************************************************************************)
(* SpecBulk: the bins are created first; then one bin is filled, one       *)
(* ingest after the other, past MAX_LIMIT rows, and listed with the limits *)
(* that matter at each size.  The other bin receives events only among     *)
(* the first BulkOther rows.                                               *)
(***************************************************************************)
BulkOther == 2

\* number of events stored for a bin
CountOf(bin_id) == Cardinality({e \in Rows(events) : e.bin_id = bin_id})

BulkLimits ==
  {<< >>, << 0 >>, << 1 >>, << MAX_LIMIT >>, << MAX_LIMIT + 1 >>}
    \cup (IF CountOf(BinId(1)) >= 1 THEN {<< CountOf(BinId(1)) >>} ELSE {})

BulkIngests ==
  {IngestReq("service", BinId(1), TextBody, << >>)}
  \cup (IF Len(events) < BulkOther
        THEN {IngestReq("service", BinId(2), TextBody, << >>)} ELSE {})

BulkOthers ==
  (IF Len(events) = 0
   THEN {AdminReq("create_bin", "service", << >>)} ELSE {})
  \cup {[AdminReq("list_events", "service", << >>)
           EXCEPT !.bin_id = BinId(1), !.limit = k] : k \in BulkLimits}
  \cup {[AdminReq("list_events", "http", << admin_token >>)
           EXCEPT !.bin_id = BinId(1), !.limit = k] :
          k \in {<< >>, << CountOf(BinId(1)) >>}}

NextBulk ==
  \/ /\ pc[1] = "idle" /\ AdmitIngest(MAX_LIMIT + BulkExtra)
     /\ \E r \in BulkIngests : CallService(1, r)
  \/ /\ pc[1] = "idle"
     /\ \E r \in Via(BulkOthers, "http") : ReceiveAdmin(1, r)
  \/ /\ pc[1] = "idle"
     /\ \E r \in Via(BulkOthers, "service") :
          Admit(r, MaxBins) /\ CallService(1, r)
  \/ SelectBin(1)
  \/ InsertEvent(1)
  \/ CommitEvent(1)
  \/ InsertBin(1)
  \/ CommitBin(1)
  \/ SelectEvents(1)
  \/ Finish(1)

SpecBulk == Init /\ [][NextBulk]_vars

(***************************************************************************)
(* SpecCodec: one bin, one event, its body any byte string within the      *)
(* size limit over ByteSamples, then read back.                            *)
(***************************************************************************)
\* NUL, two continuation bytes, the lead bytes of a two-byte and of a
\* three-byte sequence, and a byte no UTF-8 text contains
ByteSamples == {0, 130, 169, 195, 226, 255}

AllBodies == UNION {[1..n -> ByteSamples] : n \in 0..max_body_size}

CodecOthers ==
  {AdminReq("create_bin", "service", << >>),
   [AdminReq("get_event", "service", << >>) EXCEPT !.event_id = EventId(1)],
   [AdminReq("get_event", "http", << admin_token >>)
      EXCEPT !.event_id = EventId(1)]}

NextCodec ==
  \/ /\ pc[1] = "idle" /\ AdmitIngest(1)
     /\ \E b \in AllBodies :
          ReceiveIngest(1, IngestReq("http", BinId(1), b, << >>))
  \/ /\ pc[1] = "idle"
     /\ \E r \in Via(CodecOthers, "http") : ReceiveAdmin(1, r)
  \/ /\ pc[1] = "idle"
     /\ \E r \in Via(CodecOthers, "service") :
          Admit(r, 1) /\ CallService(1, r)
  \/ SelectBin(1)
  \/ InsertEvent(1)
  \/ CommitEvent(1)
  \/ InsertBin(1)
  \/ CommitBin(1)
  \/ SelectEvent(1)
  \/ Finish(1)

SpecCodec == Init /\ [][NextCodec]_vars

(***************************************************************************)
(* Properties of ingest, checked under SpecSeq.                            *)
(***************************************************************************)
\* C1, as stated: an ingest whose bin_id is not in the bins table creates
\* no event row and always signals not-found (None from the service, 404
\* from the controller), whatever its other arguments are.
C1_AlwaysNotFound ==
  \A s \in Slots :
    (pc[s] = "done" /\ req[s].kind = "ingest" /\ req[s].bin_id \notin BinIds)
    => /\ \A i \in DOMAIN loc[s].trace :
            loc[s].trace[i] \notin {"insert_event", "commit"}
       /\ \A e \in Rows(events) : e.bin_id # req[s].bin_id
       /\ out[s].svc.kind = "none"
       /\ req[s].layer = "http" =>
            out[s].http.status = 404 /\ out[s].http.body.detail.error.code = "NOT_FOUND"

\* C1, amended: an ingest whose bin_id is not in the bins table creates no
\* event row; it signals not-found unless one of the two size checks, which
\* both come before the bin lookup, rejects it, and then it signals
\* payload-too-large.
C1_NotFoundUnlessTooLarge ==
  \A s \in Slots :
    (pc[s] = "done" /\ req[s].kind = "ingest" /\ req[s].bin_id \notin BinIds)
    => LET declared == get_content_length(req[s])
           rejected ==
             \/ Len(req[s].body) > loc[s].args.max_body_size
             \/ /\ req[s].layer = "http"
                /\ declared # << >>
                /\ declared[1] > loc[s].args.max_body_size
       IN /\ \A i \in DOMAIN loc[s].trace :
               loc[s].trace[i] \notin {"insert_event", "commit"}
          /\ \A e \in Rows(events) : e.bin_id # req[s].bin_id
          /\ IF rejected
             THEN /\ out[s].svc.kind \in {"raised", "not_called"}
                  /\ out[s].svc.kind = "raised" =>
                       out[s].svc.error = "PayloadTooLargeError"
                  /\ req[s].layer = "http" =>
                       /\ out[s].http.status = 413
                       /\ out[s].http.body.detail.error.code = "PAYLOAD_TOO_LARGE"
             ELSE /\ out[s].svc.kind = "none"
                  /\ req[s].layer = "http" =>
                       /\ out[s].http.status = 404
                       /\ out[s].http.body.detail.error.code = "NOT_FOUND"

\* an ingest over HTTP to a bin that is not among the stored bins was
\* answered 404
C1_Witness ==
  \E s \in Slots :
    /\ pc[s] = "done" /\ req[s].kind = "ingest" /\ req[s].layer = "http"
    /\ bins # << >> /\ req[s].bin_id \notin BinIds
    /\ out[s].svc.kind = "none" /\ out[s].http.status = 404

\* C2, as stated: an ingest whose body is longer than max_body_size creates
\* no event row and always signals payload-too-large, and the size reported
\* is the measured length of the body, together with the configured maximum.
C2_ReportsMeasuredSize ==
  \A s \in Slots :
    (/\ pc[s] = "done" /\ req[s].kind = "ingest"
     /\ Len(req[s].body) > loc[s].args.max_body_size)
    => /\ \A i \in DOMAIN loc[s].trace :
            loc[s].trace[i] \notin {"insert_event", "commit"}
       /\ req[s].layer = "service" =>
            /\ out[s].svc.kind = "raised"
            /\ out[s].svc.error = "PayloadTooLargeError"
            /\ out[s].svc.actual_size = Len(req[s].body)
            /\ out[s].svc.max_size = loc[s].args.max_body_size
       /\ req[s].layer = "http" =>
            /\ out[s].http.status = 413
            /\ out[s].http.body.detail.error.code = "PAYLOAD_TOO_LARGE"
            /\ out[s].http.body.detail.error.message[2] = Len(req[s].body)
            /\ out[s].http.body.detail.error.message[4] = loc[s].args.max_body_size

\* C2, amended: an ingest whose body is longer than max_body_size creates
\* no event row and always signals payload-too-large with the configured
\* maximum; the size reported is the measured length of the body, except
\* over HTTP when a Content-Length header declares an integer above
\* max_body_size: then the declared value is reported and the body is
\* never measured.
C2_ReportsMeasuredOrDeclaredSize ==
  \A s \in Slots :
    (/\ pc[s] = "done" /\ req[s].kind = "ingest"
     /\ Len(req[s].body) > loc[s].args.max_body_size)
    => LET declared == get_content_length(req[s])
           early == /\ declared # << >>
                    /\ declared[1] > loc[s].args.max_body_size
       IN /\ \A i \in DOMAIN loc[s].trace :
               loc[s].trace[i] \notin {"insert_event", "commit"}
          /\ req[s].layer = "service" =>
               /\ out[s].svc.kind = "raised"
               /\ out[s].svc.error = "PayloadTooLargeError"
               /\ out[s].svc.actual_size = Len(req[s].body)
               /\ out[s].svc.max_size = loc[s].args.max_body_size
          /\ req[s].layer = "http" =>
               /\ out[s].http.status = 413
               /\ out[s].http.body.detail.error.code = "PAYLOAD_TOO_LARGE"
               /\ out[s].http.body.detail.error.message[4] = loc[s].args.max_body_size
               /\ out[s].http.body.detail.error.message[2] =
                    IF early THEN declared[1] ELSE Len(req[s].body)
               /\ early => "body_read" \notin
                             {loc[s].trace[i] : i \in DOMAIN loc[s].trace}
               /\ ~early => out[s].svc.actual_size = Len(req[s].body)

\* an ingest over HTTP with a body one byte over the limit and a
\* Content-Length that is no integer was answered 413 with the measured size
C2_Witness ==
  \E s \in Slots :
    /\ pc[s] = "done" /\ req[s].kind = "ingest" /\ req[s].layer = "http"
    /\ Len(req[s].body) = max_body_size + 1
    /\ HeaderGet(req[s].headers, "content-length") # << >>
    /\ get_content_length(req[s]) = << >>
    /\ out[s].http.status = 413
    /\ out[s].http.body.detail.error.message[2] = max_body_size + 1

\* C10, as stated: an ingest to an existing bin whose body is exactly
\* max_body_size bytes long succeeds: exactly one event is created and
\* returned.
C10_AtMaxSucceeds ==
  \A s \in Slots :
    (/\ pc[s] = "done" /\ req[s].kind = "ingest"
     /\ Len(req[s].body) = loc[s].args.max_body_size
     /\ req[s].bin_id \in BinIds)
    => /\ out[s].svc.kind = "event"
       /\ Cardinality({i \in DOMAIN events :
                         events[i] = out[s].svc.event}) = 1
       /\ Cardinality({i \in DOMAIN loc[s].trace :
                         loc[s].trace[i] = "insert_event"}) = 1
       /\ req[s].layer = "http" =>
            /\ out[s].http.status = 200
            /\ out[s].http.event_id = out[s].svc.event.id

\* C10, amended: an ingest to an existing bin whose body is exactly
\* max_body_size bytes long succeeds, exactly one event being created and
\* returned, provided that, over HTTP, no Content-Length header declares an
\* integer above max_body_size.
C10_AtMaxSucceedsUnlessDeclaredLarger ==
  \A s \in Slots :
    (/\ pc[s] = "done" /\ req[s].kind = "ingest"
     /\ Len(req[s].body) = loc[s].args.max_body_size
     /\ req[s].bin_id \in BinIds
     /\ ~(/\ req[s].layer = "http"
          /\ get_content_length(req[s]) # << >>
          /\ get_content_length(req[s])[1] > loc[s].args.max_body_size))
    => /\ out[s].svc.kind = "event"
       /\ Cardinality({i \in DOMAIN events :
                         events[i] = out[s].svc.event}) = 1
       /\ Cardinality({i \in DOMAIN loc[s].trace :
                         loc[s].trace[i] = "insert_event"}) = 1
       /\ req[s].layer = "http" =>
            /\ out[s].http.status = 200
            /\ out[s].http.event_id = out[s].svc.event.id

\* an ingest over HTTP with a body of exactly max_body_size bytes and a
\* truthful Content-Length was stored and answered 200
C10_Witness ==
  \E s \in Slots :
    /\ pc[s] = "done" /\ req[s].kind = "ingest" /\ req[s].layer = "http"
    /\ Len(req[s].body) = max_body_size
    /\ get_content_length(req[s]) = << max_body_size >>
    /\ out[s].http.status = 200
    /\ \E e \in Rows(events) :
         e.id = out[s].http.event_id /\ B64Decode(e.body_b64) = req[s].body

(***************************************************************************)
(* Referential integrity under interleaving, checked under Spec.           *)
(***************************************************************************)
\* C3: whatever the interleaving of bin creations and ingests, every stored
\* event's bin_id is the id of a stored bin, and that bin was already in
\* the bins table when the ingest that stored the event looked its bin up.
C3_EventBinExistedAtLookup ==
  \A e \in Rows(events) :
    /\ e.bin_id \in BinIds
    /\ \E c \in captured : c.id = e.id
    /\ \A c \in captured : c.id = e.id => e.bin_id \in c.seen

\* an event is stored whose ingest looked its bin up before another bin,
\* created concurrently, was committed
C3_Witness ==
  \E e \in Rows(events) :
    \E c \in captured :
      /\ c.id = e.id /\ e.bin_id \in c.seen
      /\ c.seen # BinIds
      /\ \E b \in Rows(bins) : b.id \notin c.seen /\ b.created_at <= e.created_at

C8_NoneIffBinAbsent ==
  \A s \in Slots :
    (/\ pc[s] = "done" /\ req[s].kind = "list_events"
     /\ out[s].svc.kind # "not_called")
    => /\ out[s].svc.kind \in {"none", "events"}
       /\ out[s].svc.kind = "none" <=> req[s].bin_id \notin BinIds
       /\ req[s].layer = "http" =>
            out[s].http.status = IF req[s].bin_id \in BinIds THEN 200 ELSE 404
       /\ (req[s].bin_id \in BinIds /\ CountOf(req[s].bin_id) = 0)
            => out[s].svc.kind = "events" /\ out[s].svc.items = << >>

\* a bin that exists and has no events was listed, while another bin has
\* events: the result is the empty list
C8_Witness ==
  \E s \in Slots :
    /\ pc[s] = "done" /\ req[s].kind = "list_events"
    /\ req[s].bin_id \in BinIds /\ CountOf(req[s].bin_id) = 0
    /\ events # << >>
    /\ out[s].svc.kind = "events" /\ out[s].svc.items = << >>

(***************************************************************************)
(* Listing the events of a bin, checked under SpecBulk.                    *)
(***************************************************************************)
\* C4: when a bin has received N successful ingests, N in 1..100, and
\* nothing else, list_events_by_bin(bin_id, limit=N) returns exactly those
\* N events, no event of another bin, newest first: the reverse of the
\* order in which they were ingested.
C4_ListsAllNewestFirst ==
  \A s \in Slots :
    (/\ pc[s] = "done" /\ req[s].kind = "list_events"
     /\ req[s].bin_id \in BinIds
     /\ req[s].limit = << CountOf(req[s].bin_id) >>
     /\ req[s].limit[1] \in 1..100)
    => LET InBin(e) == e.bin_id = req[s].bin_id
           ingested == SelectSeq(events, InBin)
           N == req[s].limit[1]
       IN /\ out[s].svc.kind = "events"
          /\ Len(ingested) = N
          /\ Len(out[s].svc.items) = N
          /\ \A k \in 1..N :
               /\ out[s].svc.items[k].id = ingested[N + 1 - k].id
               /\ out[s].svc.items[k].created_at
                    = ingested[N + 1 - k].created_at
          /\ req[s].layer = "http" =>
               /\ out[s].http.status = 200
               /\ out[s].http.events = out[s].svc.items

\* a bin holding MAX_LIMIT events, while another bin holds events too, was
\* listed with limit = MAX_LIMIT and all its events were returned
C4_Witness ==
  \E s \in Slots :
    /\ pc[s] = "done" /\ req[s].kind = "list_events"
    /\ CountOf(req[s].bin_id) = MAX_LIMIT
    /\ req[s].limit = << MAX_LIMIT >>
    /\ \E e \in Rows(events) : e.bin_id # req[s].bin_id
    /\ out[s].svc.kind = "events"
    /\ Len(out[s].svc.items) = MAX_LIMIT

\* C7: list_events_by_bin on an existing bin returns exactly min(number of
\* the bin's events, effective limit) events, the effective limit being 50
\* when limit is omitted and min(limit, 100) otherwise; so never more than
\* 100 events.
C7_CountIsMinOfCountAndLimit ==
  \A s \in Slots :
    (/\ pc[s] = "done" /\ req[s].kind = "list_events"
     /\ req[s].bin_id \in BinIds
     /\ out[s].svc.kind # "not_called")
    => LET effective == IF req[s].limit = << >> THEN 50
                        ELSE IF req[s].limit[1] < 100 THEN req[s].limit[1]
                        ELSE 100
           count == CountOf(req[s].bin_id)
       IN /\ out[s].svc.kind = "events"
          /\ Len(out[s].svc.items)
               = (IF count < effective THEN count ELSE effective)
          /\ Len(out[s].svc.items) <= 100
          /\ \A k \in DOMAIN out[s].svc.items :
               \E e \in Rows(events) :
                 e.bin_id = req[s].bin_id /\ e.id = out[s].svc.items[k].id

\* a bin holding more than 100 events was listed with limit = 101 and
\* exactly 100 events were returned
C7_Witness ==
  \E s \in Slots :
    /\ pc[s] = "done" /\ req[s].kind = "list_events"
    /\ CountOf(req[s].bin_id) > 100
    /\ req[s].limit = << 101 >>
    /\ out[s].svc.kind = "events"
    /\ Len(out[s].svc.items) = 100

(***************************************************************************)
(* The body of an event, stored and read back, checked under SpecCodec.    *)
(***************************************************************************)
\* C5: for every body b that ingest accepts, the empty body and bodies that
\* are no UTF-8 text included, the stored body_b64 decodes to exactly b,
\* and the size_bytes of the event read back is the length of b (0 for the
\* empty body), not the length of the encoded text.
C5_BodyRoundTrip ==
  /\ \A e \in Rows(events) :
       \E c \in captured :
         /\ c.id = e.id
         /\ B64Decode(e.body_b64) = c.body
         /\ Len(e.body_b64) = 4 * ((Len(c.body) + 2) \div 3)
         /\ size_bytes(e) = Len(c.body)
  /\ \A s \in Slots :
       (pc[s] = "done" /\ req[s].kind = "get_event"
        /\ out[s].svc.kind = "detail")
       => \E c \in captured :
            /\ c.id = out[s].svc.detail.id
            /\ out[s].svc.detail.size_bytes = Len(c.body)

\* an event whose body is max_body_size bytes that are no UTF-8 text was
\* stored and read back with size_bytes = max_body_size
C5_Witness ==
  \E s \in Slots :
    /\ pc[s] = "done" /\ req[s].kind = "get_event"
    /\ out[s].svc.kind = "detail"
    /\ out[s].svc.detail.size_bytes = max_body_size
    /\ \E c \in captured :
         /\ c.id = out[s].svc.detail.id
         /\ Len(c.body) = max_body_size
         /\ c.body[1] = 255

\* C9: get_event on a stored event returns as body the UTF-8 decoding of
\* the original bytes when they are valid UTF-8 (the empty string for an
\* empty body), and the stored base64 text unchanged otherwise; in both
\* cases size_bytes is the number of original bytes.
C9_BodyTextOrBase64 ==
  \A s \in Slots :
    (pc[s] = "done" /\ req[s].kind = "get_event"
     /\ out[s].svc.kind # "not_called"
     /\ req[s].event_id \in {e.id : e \in Rows(events)})
    => /\ out[s].svc.kind = "detail"
       /\ \E c \in captured :
            \E e \in Rows(events) :
              /\ c.id = req[s].event_id /\ e.id = req[s].event_id
              /\ out[s].svc.detail.id = e.id
              /\ out[s].svc.detail.size_bytes = Len(c.body)
              /\ c.body = << >> => out[s].svc.detail.body = << >>
              /\ Utf8Valid(c.body) =>
                   /\ out[s].svc.detail.body = Utf8Text(c.body)
                   /\ \A k \in DOMAIN out[s].svc.detail.body :
                        out[s].svc.detail.body[k] \in 0..1114111
              /\ ~Utf8Valid(c.body) =>
                   /\ out[s].svc.detail.body = e.body_b64
                   /\ Len(out[s].svc.detail.body) = 4 * ((Len(c.body) + 2) \div 3)
       /\ req[s].layer = "http" =>
            /\ out[s].http.status = 200
            /\ out[s].http.detail = out[s].svc.detail

\* an event whose body is the two bytes of U+00E9 followed by a byte that
\* is no UTF-8 was read back: the body returned is the stored base64 text
C9_Witness ==
  \E s \in Slots :
    /\ pc[s] = "done" /\ req[s].kind = "get_event"
    /\ out[s].svc.kind = "detail"
    /\ \E c \in captured :
         /\ c.id = out[s].svc.detail.id
         /\ c.body = << 195, 169, 255 >>
    /\ \E e \in Rows(events) :
         /\ e.id = out[s].svc.detail.id
         /\ out[s].svc.detail.body = e.body_b64
    /\ Len(out[s].svc.detail.body) = 4
    /\ out[s].svc.detail.size_bytes = 3

(***************************************************************************)
(* SpecIds: bin creations and ingests served concurrently while the token  *)
(* generator repeats itself: every request draws one of the tokens Draws.  *)
(***************************************************************************)
Draws == {<< 1 >>, << 2 >>}

IdRequests ==
  {[AdminReq("create_bin", "service", << >>) EXCEPT !.draw = d] : d \in Draws}
  \cup {[IngestReq("http", b, TextBody, << XTest >>) EXCEPT !.draw = d] :
          b \in {BinId(1), BinId(2)}, d \in Draws}

NextIds ==
  \/ \E s \in Slots :
       /\ pc[s] = "idle" /\ AdmitIngest(MaxEvents)
       /\ \E r \in IngestsOf(IdRequests) : ReceiveIngest(s, r)
  \/ \E s \in Slots :
       /\ pc[s] = "idle"
       /\ \E r \in OthersOf(IdRequests) :
            Admit(r, MaxBins) /\ CallService(s, r)
  \/ \E s \in Slots : SelectBin(s)
  \/ \E s \in Slots : InsertEvent(s)
  \/ \E s \in Slots : CommitEvent(s)
  \/ \E s \in Slots : InsertBin(s)
  \/ \E s \in Slots : CommitBin(s)
  \/ \E s \in Slots : Finish(s)

SpecIds == Init /\ [][NextIds]_vars

\* C12: identifiers are unique and typed.  No two stored bins share an id,
\* no two stored events share an id, every bin id carries the prefix "b_"
\* and every event id the prefix "e_", and a stored row keeps its id for
\* good, whatever tokens the generator returns.
C12_IdsUniqueAndTyped ==
  /\ [](/\ \A i, j \in DOMAIN bins : bins[i].id = bins[j].id => i = j
        /\ \A i, j \in DOMAIN events :
             events[i].id = events[j].id => i = j
        /\ \A i \in DOMAIN bins : bins[i].id[1] = "b_"
        /\ \A i \in DOMAIN events : events[i].id[1] = "e_")
  /\ [][/\ \A i \in DOMAIN bins :
            i \in DOMAIN bins' /\ bins'[i].id = bins[i].id
        /\ \A i \in DOMAIN events :
            i \in DOMAIN events' /\ events'[i].id = events[i].id]_vars

\* two bins and two events are stored, and a request that drew the token
\* of a stored row was answered with the database's refusal
C12_Witness ==
  /\ Len(bins) = 2 /\ Len(events) = 2
  /\ \E s \in Slots :
       /\ pc[s] = "done"
       /\ out[s].svc = [kind |-> "raised", error |-> "IntegrityError"]
       /\ \/ req[s].kind = "create_bin"
          \/ req[s].bin_id \in BinIds

(***************************************************************************)
(* SpecRace: ingests into one bin and listings of that bin served          *)
(* concurrently, the clock advancing or not between their statements.      *)
(***************************************************************************)
RaceRequests ==
  {IngestReq("http", BinId(1), TextBody, << XTest >>),
   AdminReq("create_bin", "service", << >>),
   [AdminReq("list_events", "service", << >>) EXCEPT !.bin_id = BinId(1)]}

NextRace ==
  \/ \E s \in Slots :
       /\ pc[s] = "idle" /\ AdmitIngest(MaxEvents)
       /\ \E r \in IngestsOf(RaceRequests) : ReceiveIngest(s, r)
  \/ \E s \in Slots :
       /\ pc[s] = "idle"
       /\ \E r \in OthersOf(RaceRequests) :
            Admit(r, MaxBins) /\ CallService(s, r)
  \/ \E s \in Slots : SelectBin(s)
  \/ \E s \in Slots : InsertEvent(s)
  \/ \E s \in Slots : CommitEvent(s)
  \/ \E s \in Slots : InsertBin(s)
  \/ \E s \in Slots : CommitBin(s)
  \/ \E s \in Slots : SelectEvents(s)
  \/ \E s \in Slots : Finish(s)
  \/ Tick

SpecRace == Init /\ [][NextRace]_vars

\* the ids a finished list_events call returned, in the order returned
ListedIds(s) == [i \in DOMAIN out[s].svc.items |-> out[s].svc.items[i].id]

\* slot s holds the result of a list_events call that returned every event
\* the bin has now: the rows it read are the rows stored now
ListedAll(s) ==
  /\ pc[s] = "done" /\ req[s].kind = "list_events"
  /\ out[s].svc.kind = "events"
  /\ {ListedIds(s)[i] : i \in DOMAIN ListedIds(s)}
       = {e.id : e \in {x \in Rows(events) : x.bin_id = req[s].bin_id}}

\* C13: listings are deterministic.  Two list_events calls for the same bin
\* made on the same store contents return the same sequence, events with
\* identical created_at included.
C13_SameContentsSameOrder ==
  \A s, t \in Slots :
    (ListedAll(s) /\ ListedAll(t) /\ req[s].bin_id = req[t].bin_id)
      => ListedIds(s) = ListedIds(t)

(***************************************************************************)
(* SpecRoute: the ingest routes, one request at a time, over the methods,  *)
(* the request paths and the spellings of a header name.                   *)
(***************************************************************************)
\* the registered methods and one the routes are not registered for
RouteMethods == IngestMethods \cup {"TRACE"}

\* what follows /b/<bin_id> in the request path: nothing, "/", "/hook",
\* "/a/b", "//x"
RouteRests ==
  {<< >>, << 47 >>, << 47 >> \o Hook, << 47, 97, 47, 98 >>,
   << 47, 47, 120 >>}

\* X-Test: v alone, in lower case with another value, and followed or
\* preceded by another spelling with another value
RouteHeaders ==
  {<< XTest >>,
   << << "x-test", << 119 >> >> >>,
   << XTest, << "X-TEST", << 119 >> >> >>,
   << << "X-TEST", << 119 >> >>, XTest >>}

RouteIngests ==
  {[IngestReq("http", b, TextBody, << XTest >>) EXCEPT !.method = m] :
     b \in {BinId(0), BinId(1)}, m \in RouteMethods}
  \cup {[IngestReq("http", BinId(1), TextBody, << XTest >>)
           EXCEPT !.rest = rest] : rest \in RouteRests}
  \cup {IngestReq("http", BinId(1), TextBody, h) : h \in RouteHeaders}

RouteOthers ==
  {AdminReq("create_bin", "service", << >>)}
  \cup {[AdminReq("get_event", "service", << >>) EXCEPT !.event_id = e] :
          e \in {EventId(1), EventId(2)}}

NextRoute ==
  \/ /\ pc[1] = "idle" /\ AdmitIngest(MaxEvents)
     /\ \E r \in RouteIngests : ReceiveIngest(1, r)
  \/ /\ pc[1] = "idle"
     /\ \E r \in RouteOthers : Admit(r, MaxBins) /\ CallService(1, r)
  \/ SelectBin(1)
  \/ InsertEvent(1)
  \/ CommitEvent(1)
  \/ InsertBin(1)
  \/ CommitBin(1)
  \/ SelectEvent(1)
  \/ Finish(1)

SpecRoute == Init /\ [][NextRoute]_vars

\* slot s holds the answer to an HTTP ingest that stored an event
Captured(s) ==
  /\ pc[s] = "done"
  /\ req[s].kind = "ingest" /\ req[s].layer = "http"
  /\ out[s].svc.kind = "event"

\* C14: the ingest entry point accepts any HTTP method.  A request to
\* /b/<bin_id> or /b/<bin_id>/<path> of an existing bin, its body within
\* the limit, is captured whatever its method, and the event's method is
\* the method received.
C14_AnyMethodCaptured ==
  \A s \in Slots :
    (/\ pc[s] = "done"
     /\ req[s].kind = "ingest" /\ req[s].layer = "http"
     /\ req[s].bin_id \in BinIds
     /\ Len(req[s].body) <= settings.max_body_size)
      => /\ out[s].svc.kind = "event"
         /\ out[s].svc.event.method = req[s].method
         /\ out[s].http.status = 200

\* the header names of the model that str.lower() leaves as they are
LowerCaseNames == {"content-length", "x-forwarded-for", "x-test"}

\* the headers sent with request r whose name is x-test in some spelling
SentXTest(r) ==
  {i \in DOMAIN r.headers :
     r.headers[i][1] \in {"X-Test", "X-TEST", "x-test"}}

\* C15: every event stored by the HTTP ingest pipeline has only lower-cased
\* header keys, and so has every event detail read back.  A request whose
\* only x-test header is sent as X-Test: v is stored, and read back, with
\* key x-test mapped to v.
C15_HeaderKeysLowerCased ==
  /\ \A i \in DOMAIN events :
       DOMAIN events[i].headers \subseteq LowerCaseNames
  /\ \A s \in Slots :
       Captured(s) =>
         LET h == out[s].svc.event.headers
         IN /\ SentXTest(req[s]) # {} => "x-test" \in DOMAIN h
            /\ req[s].headers = << XTest >> => h = [n \in {"x-test"} |-> XTest[2]]
  /\ \A s \in Slots :
       (pc[s] = "done" /\ req[s].kind = "get_event"
          /\ out[s].svc.kind = "detail")
         => \E i \in DOMAIN events :
              /\ events[i].id = req[s].event_id
              /\ out[s].svc.detail.headers = events[i].headers
              /\ DOMAIN out[s].svc.detail.headers \subseteq LowerCaseNames

\* an event sent with X-Test: v has been read back under the key x-test,
\* and a second event is stored whose x-test header carries the value w
C15_Witness ==
  /\ \E s \in Slots :
       /\ pc[s] = "done" /\ req[s].kind = "get_event"
       /\ out[s].svc.kind = "detail"
       /\ out[s].svc.detail.headers = [n \in {"x-test"} |-> XTest[2]]
  /\ \E c \in captured : c.id = EventId(1)
  /\ Len(events) = 2
  /\ events[2].headers = [n \in {"x-test"} |-> << 119 >>]

\* C16: every event created through the HTTP ingest routes has as path
\* what follows the bin-id segment of the request path, and that path does
\* not begin with a slash; a request to /b/<bin_id> stores the empty path.
C16_PathHasNoLeadingSlash ==
  \A s \in Slots :
    Captured(s) =>
      LET path == out[s].svc.event.path
      IN /\ path = << >> \/ path[1] # 47
         /\ req[s].rest = << >> => path = << >>

\* C16 as amended: every event created through the HTTP ingest routes has
\* as path the request path after the bin-id segment with the one slash
\* that separates the two removed; a request to /b/<bin_id> stores the
\* empty path.
C16_PathIsRestAfterSeparator ==
  \A s \in Slots :
    Captured(s) =>
      LET path == out[s].svc.event.path
      IN /\ req[s].rest = << >> => path = << >>
         /\ req[s].rest # << >> => req[s].rest = << 47 >> \o path
         /\ \E i \in DOMAIN events :
              events[i].id = out[s].svc.event.id /\ events[i].path = path

\* the requests /b/b_1 and /b/b_1//x have both been captured
C16_Witness ==
  /\ Len(events) = 2
  /\ events[1].path = << >>
  /\ Captured(1) /\ req[1].rest = << 47, 47, 120 >>
  /\ out[1].svc.event = events[2]

(***************************************************************************)
(* The stores over time, checked under SpecSeq.                            *)
(***************************************************************************)
\* C11: both stores are append-only.  Every step of every operation, the
\* rejected and failed ones included, leaves the rows of bins and events as
\* they are or adds exactly one row to one of the two tables; no field of
\* an existing row changes and no row is removed.
C11_AppendOnly ==
  [][\/ bins' = bins /\ events' = events
     \/ /\ events' = events
        /\ Len(bins') = Len(bins) + 1
        /\ SubSeq(bins', 1, Len(bins)) = bins
     \/ /\ bins' = bins
        /\ Len(events') = Len(events) + 1
        /\ SubSeq(events', 1, Len(events)) = events]_vars

\* with rows in both tables, a second event has been stored after a
\* request was rejected
C11_Witness ==
  /\ bins # << >> /\ Len(events) = 2
  /\ \E s \in Slots :
       /\ pc[s] = "done" /\ req[s].kind = "ingest"
       /\ out[s].svc.kind = "event"
       /\ out[s].svc.event = events[2]

\* C17: every error response for unauthorized, not found and payload too
\* large has a JSON body with the error object at its top level,
\* { error: { code, message } }, the code being UNAUTHORIZED, NOT_FOUND or
\* PAYLOAD_TOO_LARGE for status 401, 404 and 413; a not-found message
\* names the identifier requested and a payload-too-large message the
\* configured maximum.
C17_ErrorAtTopLevel ==
  \A s \in Slots :
    (pc[s] = "done" /\ out[s].http.status \in {401, 404, 413})
      => LET body == out[s].http.body
         IN /\ "error" \in DOMAIN body
            /\ DOMAIN body.error = {"code", "message"}
            /\ body.error.code =
                 (CASE out[s].http.status = 401 -> "UNAUTHORIZED"
                    [] out[s].http.status = 404 -> "NOT_FOUND"
                    [] out[s].http.status = 413 -> "PAYLOAD_TOO_LARGE")
            /\ out[s].http.status = 404 =>
                 body.error.message[3]
                   \in {req[s].bin_id, req[s].event_id}
            /\ out[s].http.status = 413 =>
                 body.error.message[4] = settings.max_body_size

(***************************************************************************)
(* Limits and retrievability, checked under SpecBulk.                      *)
(***************************************************************************)
\* the events of a bin that are in the store
StoredOf(bin_id) == {e \in Rows(events) : e.bin_id = bin_id}

\* the stored events of its bin that the finished list_events call of slot
\* s left out
Omitted(s) ==
  LET listed == {out[s].svc.items[i].id : i \in DOMAIN out[s].svc.items}
  IN {e \in StoredOf(req[s].bin_id) : e.id \notin listed}

\* list_events_by_bin(bin_id, L) returns event e
ReturnedWith(e, L) ==
  \A q \in list_by_bin(e.bin_id, effective_limit(L)) :
    \E i \in DOMAIN q : q[i] = e

\* get_event(e.id) returns event e
Retrievable(e) ==
  LET event == get_by_id(events, e.id)
  IN event = << e >> /\ from_event(event[1]).id = e.id

\* fewer than MAX_LIMIT events of its bin are newer than e
AmongNewest(e) ==
  Cardinality({x \in StoredOf(e.bin_id) : x.created_at > e.created_at})
    < MAX_LIMIT

\* slot s holds the result of a list_events call
Listed(s) ==
  /\ pc[s] = "done" /\ req[s].kind = "list_events"
  /\ out[s].svc.kind = "events"

\* C18: limiting a listing never loses events.  An event that
\* list_events_by_bin(bin_id, K) leaves out because of the limit is in the
\* store, is returned by get_event, and is returned by
\* list_events_by_bin(bin_id, L) for some limit L with K < L <= 100.
C18_OmittedReturnedByLargerLimit ==
  \A s \in Slots :
    Listed(s) =>
      \A e \in Omitted(s) :
        /\ Retrievable(e)
        /\ \E d \in 0..(MAX_LIMIT - loc[s].args.limit - 1) :
             ReturnedWith(e, MAX_LIMIT - d)

\* C18 as amended: an event that list_events_by_bin(bin_id, K) leaves out
\* because of the limit is in the store and is returned by get_event; if
\* it is among the 100 newest events of its bin, it is returned by
\* list_events_by_bin(bin_id, L) for some limit L with K < L <= 100,
\* namely for L = 100.
C18_OmittedNewestReturnedByLargerLimit ==
  \A s \in Slots :
    Listed(s) =>
      LET largest == list_by_bin(req[s].bin_id, effective_limit(MAX_LIMIT))
          returned == {{q[i] : i \in DOMAIN q} : q \in largest}
      IN \A e \in Omitted(s) :
           /\ Retrievable(e)
           /\ AmongNewest(e) =>
                /\ loc[s].args.limit < MAX_LIMIT
                /\ \A rows \in returned : e \in rows

\* a listing with limit 1 of a bin that holds more than MAX_LIMIT events
\* has left out events on both sides of the ceiling
C18_Witness ==
  /\ Listed(1) /\ loc[1].args.limit = 1
  /\ \E e \in Omitted(1) : AmongNewest(e)
  /\ \E e \in Omitted(1) : ~AmongNewest(e)

(***************************************************************************)
(* SpecUrl: the methods of BinService called with base URLs that end in    *)
(* no slash, in one and in several, and that hold slashes elsewhere.       *)
(***************************************************************************)
\* "", "/", "//", "t", "t/", "t//", "t/t", "/t/", "t//t/"
UrlBases ==
  {<< >>, << 47 >>, << 47, 47 >>, << 116 >>, << 116, 47 >>,
   << 116, 47, 47 >>, << 116, 47, 116 >>, << 47, 116, 47 >>,
   << 116, 47, 47, 116, 47 >>}

UrlRequests ==
  {[AdminReq(k, "service", << >>) EXCEPT !.base_url = b, !.bin_id = i] :
     k \in {"create_bin", "list_bins", "get_bin"}, b \in UrlBases,
     i \in {BinId(1), BinId(2)}}

NextUrl ==
  \/ /\ pc[1] = "idle"
     /\ \E r \in UrlRequests : Admit(r, MaxBins) /\ CallService(1, r)
  \/ InsertBin(1)
  \/ CommitBin(1)
  \/ SelectBin(1)
  \/ SelectBins(1)
  \/ Finish(1)

SpecUrl == Init /\ [][NextUrl]_vars

\* url is base with all its trailing slashes removed, then "/b/", then id
IsIngestUrl(url, base, id) ==
  /\ url[2] = "/b/" /\ url[3] = id
  /\ url[1] = << >> \/ url[1][Len(url[1])] # 47
  /\ \E k \in 0..Len(base) :
       /\ Len(url[1]) + k = Len(base)
       /\ \A i \in 1..Len(base) :
            base[i] = IF i <= Len(url[1]) THEN url[1][i] ELSE 47

\* the BinResponse objects the finished call of slot s returned
Responses(s) ==
  IF out[s].svc.kind = "bin" THEN {out[s].svc.bin}
  ELSE IF out[s].svc.kind = "bins"
  THEN {out[s].svc.items[i] : i \in DOMAIN out[s].svc.items}
  ELSE {}

\* C19: for every bin and every base_url, ingest_url(base_url) is base_url
\* with all trailing slashes removed, followed by "/b/" and the bin's id,
\* and every BinResponse of create_bin, get_bin and list_bins carries that
\* value for the base_url passed to the call, for a bin that is stored.
C19_IngestUrlOfBase ==
  /\ \A b \in Rows(bins) : \A base \in UrlBases :
       IsIngestUrl(ingest_url(b, base), base, b.id)
  /\ \A s \in Slots :
       (pc[s] = "done" /\ req[s].kind \in ReadsBaseUrl)
         => /\ \A r \in Responses(s) :
                 /\ IsIngestUrl(r.ingest_url, req[s].base_url, r.id)
                 /\ r.id \in BinIds
            /\ req[s].kind = "list_bins" =>
                 {r.id : r \in Responses(s)} = BinIds
            /\ req[s].kind = "get_bin" /\ req[s].bin_id \in BinIds =>
                 {r.id : r \in Responses(s)} = {req[s].bin_id}
            /\ req[s].kind = "create_bin" => Responses(s) # {}

\* list_bins called with "t//t/" has returned two bins, each with the
\* base "t//t"
C19_Witness ==
  /\ pc[1] = "done" /\ req[1].kind = "list_bins"
  /\ req[1].base_url = << 116, 47, 47, 116, 47 >>
  /\ Cardinality(Responses(1)) = 2
  /\ \A r \in Responses(1) : r.ingest_url[1] = << 116, 47, 47, 116 >>

(***************************************************************************)
(* Listing and commit order, checked under SpecRace.                       *)
(***************************************************************************)
\* the ingests that were open when the ingest that stored event e committed
OpenAtCommit(e) == (CHOOSE c \in captured : c.id = e.id).open

\* events[i] was committed before events[j], and the ingest of events[j]
\* had run its bin lookup by then: the two ingests overlapped
Concurrent(i, j) ==
  /\ i < j
  /\ events[i].bin_id = events[j].bin_id
  /\ events[j].created_at \in OpenAtCommit(events[i])

\* the place of an event in the result of the list_events call of slot s
PlaceOf(s, id) == CHOOSE k \in DOMAIN ListedIds(s) : ListedIds(s)[k] = id

\* C20: the listing reflects commit order.  Of two events of one bin
\* created by concurrent ingests, the one committed second is listed
\* before the one committed first, however the lookups, inserts and
\* commits of the two ingests interleaved.
C20_ListingReflectsCommitOrder ==
  \A s \in Slots :
    ListedAll(s) =>
      \A i, j \in DOMAIN events :
        (Concurrent(i, j) /\ events[i].bin_id = req[s].bin_id)
          => PlaceOf(s, events[j].id) < PlaceOf(s, events[i].id)

(***************************************************************************)
(* The steps of an ingest, checked under SpecSeq.                          *)
(***************************************************************************)
\* the steps of an ingest in their order: the controller's, then the
\* service's
IngestSteps(layer) ==
  IF layer = "http"
  THEN << "content_length_check", "body_read", "size_check", "select_bin",
          "insert_event", "commit" >>
  ELSE << "size_check", "select_bin", "insert_event", "commit" >>

\* the steps the request of slot s has taken
StepsOf(s) == {loc[s].trace[i] : i \in DOMAIN loc[s].trace}

\* the request of slot s was refused as too large, by the controller or by
\* the service
RefusedTooLarge(s) ==
  \/ out[s].http.status = 413
  \/ /\ out[s].svc.kind = "raised"
     /\ out[s].svc.error = "PayloadTooLargeError"

\* C21: the steps of an ingest occur in the order declared-size check,
\* body read, measured-size check, bin lookup, insert, commit, and none
\* runs after a rejection: a size rejection happens without a bin lookup
\* (an oversized request to any bin id is refused as too large), and no
\* insert is attempted before the measured-size check and the bin lookup
\* have passed.
C21_StepsInOrder ==
  \A s \in Slots :
    req[s].kind = "ingest" =>
      LET t == loc[s].trace
          order == IngestSteps(req[s].layer)
      IN /\ Len(t) <= Len(order)
         /\ \A i \in DOMAIN t : t[i] = order[i]
         /\ (pc[s] = "done" /\ RefusedTooLarge(s)) =>
              /\ StepsOf(s) \cap {"select_bin", "insert_event", "commit"} = {}
              /\ loc[s].txn = << >>
         /\ (pc[s] = "done" /\ Len(req[s].body) > max_body_size) =>
              RefusedTooLarge(s)
         /\ (pc[s] = "done" /\ out[s].svc.kind = "none") =>
              StepsOf(s) \cap {"insert_event", "commit"} = {}
         /\ "insert_event" \in StepsOf(s) =>
              /\ Len(req[s].body) <= max_body_size
              /\ {"size_check", "select_bin"} \subseteq StepsOf(s)
              /\ req[s].bin_id \in loc[s].seen

\* an oversized request to a bin that does not exist was refused as too
\* large after an event had been stored
C21_Witness ==
  /\ Len(events) = 1
  /\ pc[1] = "done" /\ req[1].kind = "ingest" /\ req[1].layer = "http"
  /\ req[1].bin_id \notin BinIds
  /\ loc[1].trace = << "content_length_check", "body_read", "size_check" >>
  /\ out[1].http.status = 413

(***************************************************************************)
(* SpecLength: HTTP ingests whose Content-Length header is absent, spells  *)
(* an integer in one of the ways int() reads, or spells none.              *)
(***************************************************************************)
\* texts that int() reads, each with the integer it denotes: n, " n", "n ",
\* "+n", "0n" and "-n" at the first value beyond the limit, "0", the limit
\* itself as "n" and "+n", and "1_0"
IntLiterals ==
  LET over == max_body_size + 1
  IN {[text |-> ToDigits(over), val |-> over],
      [text |-> << 32 >> \o ToDigits(over), val |-> over],
      [text |-> ToDigits(over) \o << 32 >>, val |-> over],
      [text |-> << 43 >> \o ToDigits(over), val |-> over],
      [text |-> << 48 >> \o ToDigits(over), val |-> over],
      [text |-> << 45 >> \o ToDigits(over), val |-> 0 - over],
      [text |-> << 48 >>, val |-> 0],
      [text |-> ToDigits(max_body_size), val |-> max_body_size],
      [text |-> << 43 >> \o ToDigits(max_body_size), val |-> max_body_size],
      [text |-> << 49, 95, 48 >>, val |-> 10]}

\* texts on which int() raises ValueError, and the empty text: "", "abc",
\* "9x", "9.0", "+", "9 9"
NonIntegers ==
  {<< >>, << 97, 98, 99 >>, << 57, 120 >>, << 57, 46, 48 >>, << 43 >>,
   << 57, 32, 57 >>}

LengthHeaders ==
  {<< XTest >>}
  \cup {<< XTest, << "Content-Length", l.text >> >> : l \in IntLiterals}
  \cup {<< XTest, << "Content-Length", t >> >> : t \in NonIntegers}

LengthRequests ==
  {IngestReq("http", BinId(1), body, h) :
     body \in {TextBody, OverMaxBody}, h \in LengthHeaders}
  \cup {AdminReq("create_bin", "service", << >>)}

NextLength ==
  \/ /\ pc[1] = "idle" /\ AdmitIngest(MaxEvents)
     /\ \E r \in IngestsOf(LengthRequests) : ReceiveIngest(1, r)
  \/ /\ pc[1] = "idle"
     /\ \E r \in OthersOf(LengthRequests) :
          Admit(r, MaxBins) /\ CallService(1, r)
  \/ SelectBin(1)
  \/ InsertEvent(1)
  \/ CommitEvent(1)
  \/ InsertBin(1)
  \/ CommitBin(1)
  \/ Finish(1)

SpecLength == Init /\ [][NextLength]_vars

\* the integers the Content-Length header of request r spells: none when
\* the header is absent or its text spells no integer
Declared(r) ==
  LET sent == {i \in DOMAIN r.headers : r.headers[i][1] = "Content-Length"}
  IN {l.val : l \in {x \in IntLiterals :
                       \E i \in sent : r.headers[i][2] = x.text}}

\* the controller refused the request of slot s at its declared-size check
RefusedEarly(s) ==
  /\ pc[s] = "done"
  /\ loc[s].trace = << "content_length_check" >>

\* C22: the early size check of an HTTP ingest rejects exactly when the
\* request carries a Content-Length header that parses as an integer whose
\* value exceeds max_body_size.  The rejection is payload too large with
\* the declared value and the configured maximum, and it happens before the
\* body is read.  When the header is absent or is no integer, the early
\* check is skipped and the measured-size check decides.
C22_EarlyCheckOnDeclaredSize ==
  \A s \in Slots :
    (pc[s] = "done" /\ req[s].kind = "ingest" /\ req[s].layer = "http")
      => LET declared == Declared(req[s])
             error == out[s].http.body.detail.error
         IN /\ RefusedEarly(s)
                 <=> \E n \in declared : n > settings.max_body_size
            /\ RefusedEarly(s) =>
                 /\ out[s].http.status = 413
                 /\ error.code = "PAYLOAD_TOO_LARGE"
                 /\ error.message[2] \in declared
                 /\ error.message[4] = settings.max_body_size
                 /\ "body_read" \notin StepsOf(s)
                 /\ out[s].svc = NotCalled
            /\ declared = {} =>
                 /\ SubSeq(loc[s].trace, 1, 3)
                      = << "content_length_check", "body_read",
                           "size_check" >>
                 /\ out[s].http.status = 413
                      <=> Len(req[s].body) > settings.max_body_size
                 /\ out[s].http.status = 413 =>
                      error.message[2] = Len(req[s].body)

\* a short body sent with Content-Length " 5", one beyond the limit, has
\* been refused before the body was read, and the one event in the store
\* was sent with Content-Length "abc"
C22_Witness ==
  /\ RefusedEarly(1)
  /\ req[1].body = TextBody
  /\ req[1].headers
       = << XTest, << "Content-Length",
                      << 32 >> \o ToDigits(max_body_size + 1) >> >>
  /\ out[1].http.status = 413
  /\ Len(events) = 1
  /\ "content-length" \in DOMAIN events[1].headers
  /\ events[1].headers["content-length"] = << 97, 98, 99 >>

(***************************************************************************)
(* SpecFail: requests served concurrently whose body read or database      *)
(* statements may fail.                                                    *)
(***************************************************************************)
\* the labels at which a request is about to run a database statement
DbSteps ==
  {"select_bin", "insert_event", "commit_event", "insert_bin", "commit_bin",
   "select_bins", "select_events", "select_event"}

\* the step a statement is recorded as
StepName(label) ==
  CASE label \in {"commit_event", "commit_bin"} -> "commit"
    [] OTHER -> label

\* a failing COMMIT that has made its row visible all the same
StorageFailure_Committed(s) ==
  /\ pc[s] \in DbSteps
  /\ events' = IF pc[s] = "commit_event"
               THEN Append(events, loc[s].row[1]) ELSE events
  /\ UNCHANGED << bins, clock, req, captured >>
  /\ End(s, [loc[s] EXCEPT !.txn = Begun(s), !.row = << >>,
                           !.trace = @ \o << StepName(pc[s]) >>],
         [kind |-> "raised", error |-> "OperationalError"],
         Http(s, [status |-> 500]))

\* the statement the request of slot s is about to run raises: the service
\* and the controller catch nothing but PayloadTooLargeError, the session
\* is closed on the way out and what it had flushed is rolled back
StorageFailure(s) ==
  /\ pc[s] \in DbSteps
  /\ UNCHANGED << bins, events, clock, req, captured >>
  /\ End(s, [loc[s] EXCEPT !.txn = Begun(s), !.row = << >>,
                           !.trace = @ \o << StepName(pc[s]) >>],
         [kind |-> "raised", error |-> "OperationalError"],
         Http(s, [status |-> 500]))

\* the client goes away while the controller reads the body: request.body()
\* raises ClientDisconnect after the declared-size check has passed
ClientDisconnect(s, r) ==
  /\ pc[s] = "idle"
  /\ r.kind = "ingest" /\ r.layer = "http"
  /\ r.method \in IngestMethods
  /\ ~DeclaredTooLarge(get_content_length(r), settings.max_body_size)
  /\ req' = [req EXCEPT ![s] = r]
  /\ UNCHANGED << bins, events, clock, captured >>
  /\ End(s, [WithSession EXCEPT !.trace = << "content_length_check", "body_read" >>],
         [kind |-> "raised", error |-> "ClientDisconnect"],
         [status |-> 500])

\* the bins created under SpecFail and SpecDurable
FewBins == 1

FailRequests ==
  {IngestReq("http", BinId(1), body, << XTest >>) :
     body \in {TextBody, OverMaxBody}}
  \cup {AdminReq("create_bin", "service", << >>)}
  \cup {[AdminReq("get_event", "http", a) EXCEPT !.event_id = EventId(1)] :
          a \in {<< "wrong" >>, << admin_token >>}}

NextFail ==
  \/ \E s \in Slots :
       /\ pc[s] = "idle" /\ AdmitIngest(MaxEvents)
       /\ \E r \in IngestsOf(FailRequests) : ReceiveIngest(s, r)
  \/ \E s \in Slots :
       /\ pc[s] = "idle"
       /\ \E r \in IngestsOf(FailRequests) : ClientDisconnect(s, r)
  \/ \E s \in Slots :
       /\ pc[s] = "idle"
       /\ \E r \in Via(OthersOf(FailRequests), "http") : ReceiveAdmin(s, r)
  \/ \E s \in Slots :
       /\ pc[s] = "idle"
       /\ \E r \in Via(OthersOf(FailRequests), "service") :
            Admit(r, FewBins) /\ CallService(s, r)
  \/ \E s \in Slots : SelectBin(s)
  \/ \E s \in Slots : InsertEvent(s)
  \/ \E s \in Slots : CommitEvent(s)
  \/ \E s \in Slots : InsertBin(s)
  \/ \E s \in Slots : CommitBin(s)
  \/ \E s \in Slots : SelectEvent(s)
  \/ \E s \in Slots : StorageFailure(s)
  \/ \E s \in Slots : Finish(s)

SpecFail == Init /\ [][NextFail]_vars

\* the ingest of slot s has ended in a failure of the body read or of a
\* database statement
IngestFailed(s) ==
  /\ pc[s] = "done" /\ req[s].kind = "ingest"
  /\ out[s].svc.kind = "raised"
  /\ out[s].svc.error \in {"OperationalError", "ClientDisconnect"}

\* how many times the request of slot s has run the step
Attempts(s, step) ==
  Cardinality({i \in DOMAIN loc[s].trace : loc[s].trace[i] = step})

\* C23: ingest is all-or-nothing.  An ingest that does not run to a
\* successful commit (the client goes away while the body is read, or the
\* bin lookup, the insert or the commit fails) leaves no event row visible
\* to any later read: a row appears in the store only in the step in which
\* an ingest commits and answers with that very row.  An ingest makes at
\* most one insert attempt, and its failure is propagated as a server
\* failure, never reported as not found or as payload too large.
C23_AllOrNothing ==
  /\ [](\A s \in Slots :
          /\ req[s].kind = "ingest" => Attempts(s, "insert_event") <= 1
          /\ IngestFailed(s) =>
               /\ out[s].http.status = 500
               /\ loc[s].row = << >>)
  /\ [](/\ Cardinality(captured) = Len(events)
        /\ {c.id : c \in captured} = {e.id : e \in Rows(events)})
  /\ [][\A s \in Slots :
          (pc[s] # "done" /\ pc'[s] = "done" /\ req'[s].kind = "ingest")
            => IF out'[s].svc.kind = "event"
               THEN events' = Append(events, out'[s].svc.event)
               ELSE events' = events]_vars

\* an ingest has failed at its commit, after its insert, while the store
\* holds the one event of an earlier ingest, and another has failed at the
\* body read
C23_Witness ==
  /\ IngestFailed(1)
  /\ loc[1].trace = << "content_length_check", "body_read", "size_check",
                       "select_bin", "insert_event", "commit" >>
  /\ Len(events) = 1
  /\ IngestFailed(2)
  /\ out[2].svc.error = "ClientDisconnect"

\* the request of slot s came through a route that depends on
\* get_db_session
Routed(s) ==
  /\ pc[s] # "idle"
  /\ req[s].layer = "http"
  /\ req[s].kind = "ingest" => req[s].method \in IngestMethods

\* C24: each ingest or query request uses exactly one store session of its
\* own, never shared with another request, and the session is released
\* when the request completes, on every path: success, not found, payload
\* too large, unauthorized and storage failure.  No request is finished
\* with its session still held.
C24_OneSessionPerRequest ==
  /\ [](\A s \in Slots :
          /\ Routed(s) => Len(loc[s].session) = 1
          /\ pc[s] = "idle" => loc[s].session = << >>
          /\ \A t \in Slots \ {s} :
               loc[s].session # << >> => loc[t].session # loc[s].session)
  /\ [][\A s \in Slots :
          (pc[s] # "idle" /\ pc'[s] # "idle")
            => loc'[s].session = loc[s].session]_vars

\* a query refused as unauthorized and an ingest whose commit failed each
\* hold a session of their own until their response is sent, and one event
\* is in the store
C24_Witness ==
  /\ pc[1] = "done" /\ req[1].kind = "get_event"
  /\ out[1].http.status = 401
  /\ loc[1].session = << 2 >>
  /\ IngestFailed(2)
  /\ "insert_event" \in StepsOf(2)
  /\ loc[2].session = << 1 >>
  /\ Len(events) = 1

\* C25: every ingest request receives exactly one response, which is 200
\* { ok: true, event_id } when an event was created, 404 NOT_FOUND when the
\* bin is missing, 413 when a size check fails, or a server failure when
\* the store fails; a 200 is returned only if the request created an event,
\* and event_id is that event's id.
C25_OneOfFourResponses ==
  \A s \in Slots :
    (pc[s] = "done" /\ req[s].kind = "ingest" /\ req[s].layer = "http")
      => LET http == out[s].http
             svc == out[s].svc
         IN /\ http.status \in {200, 404, 413, 500}
            /\ http.status = 200 <=> svc.kind = "event"
            /\ http.status = 200 =>
                 /\ http.ok = TRUE
                 /\ http.event_id = svc.event.id
                 /\ svc.event.bin_id = req[s].bin_id
                 /\ \E i \in DOMAIN events : events[i] = svc.event
                 /\ loc[s].trace[Len(loc[s].trace)] = "commit"
            /\ http.status = 404 <=> svc.kind = "none"
            /\ http.status = 404 =>
                 /\ http.body.detail.error.code = "NOT_FOUND"
                 /\ req[s].bin_id \notin loc[s].seen
            /\ http.status = 413 <=>
                 \/ DeclaredTooLarge(get_content_length(req[s]),
                                     settings.max_body_size)
                 \/ /\ "size_check" \in StepsOf(s)
                    /\ Len(req[s].body) > settings.max_body_size
            /\ http.status = 500 <=>
                 (svc.kind = "raised" /\ svc.error # "PayloadTooLargeError")

(***************************************************************************)
(* SpecBins: bins created one after the other through BinService, past     *)
(* MAX_LIMIT rows, and listed in between.  The first NamedBins bins are    *)
(* created with no name, with "A" or with "B"; the later ones with "A".    *)
(***************************************************************************)
NamedBins == 2

BinNames ==
  IF Len(bins) < NamedBins THEN {<< >>, << "A" >>, << "B" >>}
  ELSE {<< "A" >>}

BinsRequests ==
  {[AdminReq("create_bin", "service", << >>) EXCEPT !.name = n] :
     n \in BinNames}
  \cup {AdminReq("list_bins", "service", << >>)}

NextBins ==
  \/ /\ pc[1] = "idle"
     /\ \E r \in BinsRequests :
          Admit(r, MAX_LIMIT + BulkExtra) /\ CallService(1, r)
  \/ InsertBin(1)
  \/ CommitBin(1)
  \/ SelectBins(1)
  \/ Finish(1)

SpecBins == Init /\ [][NextBins]_vars

\* slot s holds the result of a list_bins call
ListedBins(s) ==
  /\ pc[s] = "done" /\ req[s].kind = "list_bins"
  /\ out[s].svc.kind = "bins"

\* C26: after any sequence of M create_bin calls, whose names may be
\* equal or null, list_bins returns exactly those M bins, each once,
\* newest first, whatever M is; each returned bin has the id and the name
\* given at its creation.
C26_ListBinsReturnsAll ==
  /\ [](\A s \in Slots :
          ListedBins(s) =>
            LET items == out[s].svc.items
                M == Len(bins)
            IN /\ Len(items) = M
               /\ \A i \in 1..M :
                    /\ items[i].id = bins[M + 1 - i].id
                    /\ items[i].name = bins[M + 1 - i].name
               /\ \A i, j \in 1..M : i # j => items[i].id # items[j].id
               /\ \A i \in 1..(M - 1) :
                    items[i].created_at > items[i + 1].created_at)
  /\ [][\A s \in Slots :
          (pc[s] = "commit_bin" /\ pc'[s] = "done")
            => /\ out'[s].svc.kind = "bin"
               /\ out'[s].svc.bin.name = req[s].name
               /\ bins' = Append(bins, [id |-> out'[s].svc.bin.id,
                                        name |-> req[s].name,
                                        created_at |->
                                          out'[s].svc.bin.created_at])]_vars

\* a listing has returned more than MAX_LIMIT bins, among them two named
\* "A", one created before the other, and one with no name
C26_Witness ==
  /\ ListedBins(1)
  /\ Len(out[1].svc.items) = MAX_LIMIT + 1
  /\ out[1].svc.items[MAX_LIMIT + 1].name = << >>
  /\ out[1].svc.items[MAX_LIMIT].name = << "A" >>
  /\ out[1].svc.items[1].name = << "A" >>

(***************************************************************************)
(* SpecIp: HTTP ingests sent with and without X-Forwarded-For, over a      *)
(* connection with a peer address and over one without.                    *)
(***************************************************************************)
\* values of X-Forwarded-For with their first comma-separated entry,
\* trimmed: "1.2", " 1.2 ", "1.2, 3.4", ",3.4" and " , 3.4"
ForwardedTexts ==
  {[text |-> << 49, 46, 50 >>, first |-> << 49, 46, 50 >>],
   [text |-> << 32, 49, 46, 50, 32 >>, first |-> << 49, 46, 50 >>],
   [text |-> << 49, 46, 50, 44, 32, 51, 46, 52 >>,
    first |-> << 49, 46, 50 >>],
   [text |-> << 44, 51, 46, 52 >>, first |-> << >>],
   [text |-> << 32, 44, 32, 51, 46, 52 >>, first |-> << >>]}

\* no X-Forwarded-For, an empty one, and one of each text
IpHeaders ==
  {<< XTest >>, << XTest, << "X-Forwarded-For", << >> >> >>}
  \cup {<< XTest, << "X-Forwarded-For", f.text >> >> : f \in ForwardedTexts}

IpRequests ==
  {[IngestReq("http", BinId(1), TextBody, h) EXCEPT !.client = c] :
     h \in IpHeaders, c \in {Peer, << >>}}
  \cup {AdminReq("create_bin", "service", << >>)}

NextIp ==
  \/ /\ pc[1] = "idle" /\ AdmitIngest(MaxEvents)
     /\ \E r \in IngestsOf(IpRequests) : ReceiveIngest(1, r)
  \/ /\ pc[1] = "idle"
     /\ \E r \in OthersOf(IpRequests) :
          Admit(r, MaxBins) /\ CallService(1, r)
  \/ SelectBin(1)
  \/ InsertEvent(1)
  \/ CommitEvent(1)
  \/ InsertBin(1)
  \/ CommitBin(1)
  \/ Finish(1)

SpecIp == Init /\ [][NextIp]_vars

\* the non-empty X-Forwarded-For values request r was sent with
Forwarded(r) ==
  {f \in ForwardedTexts :
     \E i \in DOMAIN r.headers :
       r.headers[i] = << "X-Forwarded-For", f.text >>}

\* C27: extract_client_ip returns the first comma-separated entry of
\* X-Forwarded-For, trimmed, whenever that header is present and not empty,
\* whatever the peer address; otherwise the peer host when the request has
\* a client; otherwise None.  What it returns is what ingest stores as
\* remote_ip.
C27_ForwardedElsePeer ==
  \A s \in Slots :
    Captured(s) =>
      LET stored == out[s].svc.event.remote_ip
      IN /\ \A f \in Forwarded(req[s]) : stored = << f.first >>
         /\ Forwarded(req[s]) = {} => stored = req[s].client
         /\ \E i \in DOMAIN events :
              /\ events[i].id = out[s].svc.event.id
              /\ events[i].remote_ip = stored

\* the store holds an event sent without a peer address and without the
\* header, and an event sent over a connection with a peer address whose
\* X-Forwarded-For was " 1.2 " has been stored with remote_ip "1.2"
C27_Witness ==
  /\ Len(events) = 2
  /\ events[1].remote_ip = << >>
  /\ Captured(1)
  /\ req[1].client = Peer
  /\ req[1].headers = << XTest, << "X-Forwarded-For",
                                   << 32, 49, 46, 50, 32 >> >> >>
  /\ events[2].remote_ip = << << 49, 46, 50 >> >>

\* C30: the remote_ip captured by ingest is never an empty string.
\* Whenever X-Forwarded-For yields no address (the header is absent, empty,
\* or its first comma-separated entry is blank after trimming)
\* extract_client_ip falls back to the peer address, and it returns None
\* only when there is no peer.
C30_RemoteIpNeverEmpty ==
  /\ \A i \in DOMAIN events : events[i].remote_ip # << << >> >>
  /\ \A s \in Slots :
       Captured(s) =>
         LET stored == out[s].svc.event.remote_ip
         IN /\ (\A f \in Forwarded(req[s]) : f.first = << >>)
                 => stored = req[s].client
            /\ stored = << >> => req[s].client = << >>

(***************************************************************************)
(* SpecPair: two ingests that differ in every field, and bin creations,    *)
(* served concurrently.                                                    *)
(***************************************************************************)
\* POST /b/b_1/hook with body "hi" from 10.1, and PUT /b/b_2/a/b?q=1&q=2
\* with a body of max_body_size bytes and header X-TEST: w from 10.2
PairIngests ==
  {IngestReq("http", BinId(1), TextBody, << XTest >>),
   [IngestReq("http", BinId(2), AtMaxBody, << << "X-TEST", << 119 >> >> >>)
      EXCEPT !.method = "PUT",
             !.rest = << 47, 97, 47, 98 >>,
             !.path = << 97, 47, 98 >>,
             !.query = << << "q", << 49 >> >>, << "q", << 50 >> >> >>,
             !.client = << << 49, 48, 46, 50 >> >>]}

PairRequests == PairIngests \cup {AdminReq("create_bin", "service", << >>)}

NextPair ==
  \/ \E s \in Slots :
       /\ pc[s] = "idle" /\ AdmitIngest(MaxEvents)
       /\ \E r \in IngestsOf(PairRequests) : ReceiveIngest(s, r)
  \/ \E s \in Slots :
       /\ pc[s] = "idle"
       /\ \E r \in OthersOf(PairRequests) :
            Admit(r, MaxBins) /\ CallService(s, r)
  \/ \E s \in Slots : SelectBin(s)
  \/ \E s \in Slots : InsertEvent(s)
  \/ \E s \in Slots : CommitEvent(s)
  \/ \E s \in Slots : InsertBin(s)
  \/ \E s \in Slots : CommitBin(s)
  \/ \E s \in Slots : Finish(s)

SpecPair == Init /\ [][NextPair]_vars

\* event e carries the fields of request r
CarriesRequest(e, r) ==
  /\ e.bin_id = r.bin_id
  /\ e.method = r.method
  /\ e.path = r.path
  /\ e.query_params = QueryDict(r.query)
  /\ e.headers = HeadersDict(r.headers)
  /\ e.body_b64 = B64Encode(r.body)
  /\ e.remote_ip = r.client

\* C28: for concurrent ingests to existing bins with bodies within the
\* limit, every interleaving ends with exactly one event per ingest.  Each
\* ingest whose lookup found its bin ends by adding one row, which carries
\* the bin_id, method, path, query_params, headers, body and remote_ip of
\* its own request, and leaves every other row as it was; the ids of the
\* rows are pairwise distinct.
C28_OneEventPerIngest ==
  /\ [](/\ \A i, j \in DOMAIN events :
             i # j => events[i].id # events[j].id
        /\ Len(events) = Cardinality(captured)
        /\ \A s \in Slots :
             (pc[s] = "done" /\ req[s].kind = "ingest"
                /\ req[s].bin_id \in loc[s].seen)
               => /\ out[s].svc.kind = "event"
                  /\ CarriesRequest(out[s].svc.event, req[s])
                  /\ \E i \in DOMAIN events : events[i] = out[s].svc.event)
  /\ [][\A s \in Slots :
          (req[s].kind = "ingest" /\ pc[s] # "done" /\ pc'[s] = "done"
             /\ req[s].bin_id \in loc'[s].seen)
            => /\ Len(events') = Len(events) + 1
               /\ SubSeq(events', 1, Len(events)) = events
               /\ CarriesRequest(events'[Len(events')], req[s])]_vars

\* both ingests were in flight together, the one that looked its bin up
\* first committed last, and the store holds one event of each
C28_Witness ==
  /\ Len(events) = 2
  /\ events[1].method = "PUT" /\ events[2].method = "POST"
  /\ events[2].created_at < events[1].created_at
  /\ pc[1] = "done" /\ pc[2] = "done"
  /\ out[1].svc.kind = "event" /\ out[2].svc.kind = "event"

(***************************************************************************)
(* SpecDurable: bin creations and ingests served concurrently with the     *)
(* reads of the bins and events they return.                               *)
(***************************************************************************)
DurableRequests ==
  {IngestReq("http", BinId(1), TextBody, << XTest >>),
   AdminReq("create_bin", "service", << >>),
   AdminReq("list_bins", "service", << >>),
   [AdminReq("get_bin", "service", << >>) EXCEPT !.bin_id = BinId(1)],
   [AdminReq("list_events", "service", << >>) EXCEPT !.bin_id = BinId(1)],
   [AdminReq("get_event", "service", << >>) EXCEPT !.event_id = EventId(1)]}

NextDurable ==
  \/ \E s \in Slots :
       /\ pc[s] = "idle" /\ AdmitIngest(MaxEvents)
       /\ \E r \in IngestsOf(DurableRequests) : ReceiveIngest(s, r)
  \/ \E s \in Slots :
       /\ pc[s] = "idle"
       /\ \E r \in OthersOf(DurableRequests) :
            Admit(r, FewBins) /\ CallService(s, r)
  \/ \E s \in Slots : SelectBin(s)
  \/ \E s \in Slots : InsertEvent(s)
  \/ \E s \in Slots : CommitEvent(s)
  \/ \E s \in Slots : InsertBin(s)
  \/ \E s \in Slots : CommitBin(s)
  \/ \E s \in Slots : SelectBins(s)
  \/ \E s \in Slots : SelectEvents(s)
  \/ \E s \in Slots : SelectEvent(s)
  \/ \E s \in Slots : Finish(s)

SpecDurable == Init /\ [][NextDurable]_vars

\* create_bin has returned its bin to the caller of slot s
ReturnedBin(s) ==
  /\ pc[s] = "done" /\ req[s].kind = "create_bin"
  /\ out[s].svc.kind = "bin"

\* ingest has returned its event to the caller of slot s
ReturnedEvent(s) ==
  /\ pc[s] = "done" /\ req[s].kind = "ingest"
  /\ out[s].svc.kind = "event"

\* the request of slot t runs the statement at label in this step
Runs(t, label) == pc[t] = label /\ pc'[t] # label

====
